---- MODULE Spec2Model ----
(***************************************************************************)
(* Digit-propagation factorization engine of dcp-factor (IVI).             *)
(*                                                                         *)
(* Modelled from src/common.js and src/pruning_algorithm.js:               *)
(*   - integerSqrt (Newton loop), one state per loop iteration;            *)
(*   - the base-10 pruning engine: initializeAlgorithm, workFunction,      *)
(*     globalFeasible, stepAlgorithm;                                      *)
(*   - the base-generalized engine: initializeAlgorithmBase,               *)
(*     workFunctionBase, stepAlgorithmBase, runAlgorithmForBase.           *)
(*                                                                         *)
(* BigInt values are TLA+ integers.  JS Numbers are exact below 2^53; all  *)
(* inputs of the model stay far below that.  Strings are sequences of      *)
(* one-character strings.  A JS object field that is absent (undefined) is *)
(* held as the falsy value the code reads it as (FALSE, 0, <<>>).          *)
(***************************************************************************)
EXTENDS Integers, Sequences, FiniteSets, TLC

(***************************************************************************)
(* Bounds of the model.                                                    *)
(***************************************************************************)
\* integerSqrt alone is run on every n in -MaxNegative..MaxSqrtInput
MaxSqrtInput == 130
MaxNegative == 2
\* the base-10 engine is run on N = p*q for 1 <= p <= q <= MaxFactor
MaxFactor == 14
\* the base-generalized engine is run on N = p*q for 1 <= p <= q <= MaxFactorBase
MaxFactorBase == 7
\* the basic engine is run on N = p*q for 1 <= p <= q <= MaxFactorBasic
MaxFactorBasic == 15
\* globalFeasible is applied to the true branch of N = P*Q for
\* 2 <= P <= Q <= MaxBranchFactor
MaxBranchFactor == 40
\* the basic workFunction is followed along the digit path of N = P*Q for
\* 2 <= P <= Q <= MaxPathFactor
MaxPathFactor == 80
\* the pruning and base engines are run side by side on N = p*q for
\* 1 <= p <= q <= MaxFactorSide
MaxFactorSide == 14
\* a caller may call the step function again this many times on a state that is
\* already done or solved (the counters of an exhausted state grow for ever)
MaxExtraCalls == 2
\* Date.now() - startTime takes a value of 0..MaxElapsed
MaxElapsed == 1
\* two-run specification: factors up to MaxFactorDet, a cache filled up to
\* 10^MaxCachedExponent
MaxFactorDet == 12
MaxCachedExponent == 3
\* initialization on arbitrary arguments: p, q in -MaxNegative..MaxInput
MaxInput == 3

(***************************************************************************)
(* Program constants.                                                      *)
(***************************************************************************)
MinBase == 2
MaxBase == 36

VARIABLES
    pc,             \* where the caller is: "init", "run", "returned", "thrown", "sqrt"
    engine,         \* which entry point drives this run
    args,           \* the arguments p, q, base of the initialize call
    sqrt_pc,        \* integerSqrt: "idle", "loop", "returned", "thrown"
    sqrt_n,         \* integerSqrt: the argument n
    x,              \* integerSqrt: local x
    prev,           \* integerSqrt: local prev
    state,          \* the algorithm state object returned by initialize/step
    POWER_10_CACHE, \* the module-level Map of powerOf10
    calls,          \* number of step calls made on this run
    extraCalls,     \* number of step calls made on a state that was already terminal
    other           \* a second, independent run (frontier and cache of another executor)

vars == <<pc, engine, args, sqrt_pc, sqrt_n, x, prev, state, POWER_10_CACHE, calls,
          extraCalls, other>>

(***************************************************************************)
(* Small helpers.                                                          *)
(***************************************************************************)
RECURSIVE Pow(_, _)
Pow(b, e) == IF e = 0 THEN 1 ELSE b * Pow(b, e - 1)

Max2(a, b) == IF a >= b THEN a ELSE b

Reverse(s) == [i \in 1..Len(s) |-> s[Len(s) + 1 - i]]

EmptyMap == [i \in {} |-> 0]


(***************************************************************************)
(* Exact arithmetic utilities (src/common.js).                             *)
(***************************************************************************)
\* the p fields of DIGIT_MULT_TABLE, row a, column b (0-based in the source)
DIGIT_MULT_TABLE ==
    << <<0, 0, 0, 0, 0, 0, 0, 0, 0, 0>>,
       <<0, 1, 2, 3, 4, 5, 6, 7, 8, 9>>,
       <<0, 2, 4, 6, 8, 10, 12, 14, 16, 18>>,
       <<0, 3, 6, 9, 12, 15, 18, 21, 24, 27>>,
       <<0, 4, 8, 12, 16, 20, 24, 28, 32, 36>>,
       <<0, 5, 10, 15, 20, 25, 30, 35, 40, 45>>,
       <<0, 6, 12, 18, 24, 30, 36, 42, 48, 54>>,
       <<0, 7, 14, 21, 28, 35, 42, 49, 56, 63>>,
       <<0, 8, 16, 24, 32, 40, 48, 56, 64, 72>>,
       <<0, 9, 18, 27, 36, 45, 54, 63, 72, 81>> >>

\* a table of sums in place of the table of products
multiplyDigitsSum(a, b) == a + b

multiplyDigits(a, b) == DIGIT_MULT_TABLE[a + 1][b + 1]

\* powerOf10(k): the cached value when the Map has the key, else 10n ** BigInt(k)
powerOf10(k) ==
    IF k \in DOMAIN POWER_10_CACHE THEN POWER_10_CACHE[k] ELSE Pow(10, k)

\* the Map after powerOf10 has been called on every exponent of the set used;
\* the first definition stores 10^(k + 1) under the key k
CacheAfterShifted(used) ==
    [e \in (DOMAIN POWER_10_CACHE) \cup used |->
        IF e \in DOMAIN POWER_10_CACHE THEN POWER_10_CACHE[e] ELSE Pow(10, e + 1)]

CacheAfter(used) ==
    [e \in (DOMAIN POWER_10_CACHE) \cup used |->
        IF e \in DOMAIN POWER_10_CACHE THEN POWER_10_CACHE[e] ELSE Pow(10, e)]

powerOfBase(base, exponent) == Pow(base, exponent)

\* one Newton iteration of integerSqrt: x = (x + n / x) / 2n; the first
\* definition rounds the halving up instead of down
NewtonStepRoundUp(n, xx) == (xx + n \div xx + 1) \div 2

NewtonStep(n, xx) == (xx + n \div xx) \div 2

\* the characters of Number.prototype.toString(radix) / BigInt toString
DigitChars ==
    << "0", "1", "2", "3", "4", "5", "6", "7", "8", "9", "a", "b", "c", "d",
       "e", "f", "g", "h", "i", "j", "k", "l", "m", "n", "o", "p", "q", "r",
       "s", "t", "u", "v", "w", "x", "y", "z" >>

\* n.toString(radix) for n >= 0, most significant character first
RECURSIVE ToStringRadix(_, _)
ToStringRadix(n, radix) ==
    IF n < radix THEN << DigitChars[n + 1] >>
    ELSE Append(ToStringRadix(n \div radix, radix), DigitChars[(n % radix) + 1])

BigIntToString(n) == ToStringRadix(n, 10)

\* Number(c) for a one-character decimal string
CharToNumber(c) == CHOOSE d \in 0..9 : DigitChars[d + 1] = c

\* N.toString().split('').reverse().map(Number)
DecimalDigitsLSD(N) ==
    LET str == BigIntToString(N)
    IN  [i \in 1..Len(str) |-> CharToNumber(str[Len(str) + 1 - i])]

\* numberToBaseDigits(n, base), for a base in MinBase..MaxBase
RECURSIVE numberToBaseDigitsLoop(_, _, _)
numberToBaseDigitsLoop(num, base, digits) ==
    IF num > 0
    THEN numberToBaseDigitsLoop(num \div base, base, Append(digits, num % base))
    ELSE digits

numberToBaseDigits(n, base) ==
    IF n = 0 THEN << 0 >>
    ELSE LET digits == numberToBaseDigitsLoop(n, base, << >>)
         IN  IF Len(digits) > 0 THEN digits ELSE << 0 >>

\* `${pk}${qk}`.padStart(2, '0') with the digits written in the given radix
LastTwoDigits(pk, qk, radix) == ToStringRadix(pk, radix) \o ToStringRadix(qk, radix)

(***************************************************************************)
(* integerSqrt as a state machine: the call, one step per loop iteration,  *)
(* the return.                                                             *)
(***************************************************************************)
NoState == [absent |-> TRUE]
NoArgs == [p |-> 0, q |-> 0, base |-> 0]

EngineVarsUnchanged ==
    UNCHANGED <<engine, args, state, POWER_10_CACHE, calls, extraCalls, other>>

\* lines 67-75: the guards, then x = n, prev = 0
IntegerSqrtEnter ==
    /\ sqrt_pc = "called"
    /\ sqrt_pc' = IF sqrt_n < 0 THEN "thrown"
                  ELSE IF sqrt_n \in {0, 1} THEN "returned"
                  ELSE "loop"
    /\ x' = IF sqrt_n < 0 THEN x ELSE sqrt_n
    /\ prev' = 0
    /\ UNCHANGED <<sqrt_n, pc>>
    /\ EngineVarsUnchanged

\* lines 76-79: one iteration of while (x !== prev)
IntegerSqrtIter ==
    /\ sqrt_pc = "loop"
    /\ x # prev
    /\ prev' = x
    /\ x' = NewtonStep(sqrt_n, x)
    /\ UNCHANGED <<sqrt_n, sqrt_pc, pc>>
    /\ EngineVarsUnchanged

\* line 80: the loop condition fails, return x
IntegerSqrtReturn ==
    /\ sqrt_pc = "loop"
    /\ x = prev
    /\ sqrt_pc' = "returned"
    /\ UNCHANGED <<sqrt_n, x, prev, pc>>
    /\ EngineVarsUnchanged

IntegerSqrtNext == IntegerSqrtEnter \/ IntegerSqrtIter \/ IntegerSqrtReturn

\* integerSqrt called on its own, on every n of the bounded range
SqrtInit ==
    /\ sqrt_n \in (0 - MaxNegative)..MaxSqrtInput
    /\ sqrt_pc = "called"
    /\ x = 0
    /\ prev = 0
    /\ pc = "sqrt"
    /\ engine = "integerSqrt"
    /\ args = NoArgs
    /\ state = NoState
    /\ POWER_10_CACHE = EmptyMap
    /\ calls = 0
    /\ extraCalls = 0
    /\ other = NoState

\* the loop is sequential code: an enabled step is eventually taken
SqrtSpec == SqrtInit /\ [][IntegerSqrtNext]_vars /\ WF_vars(IntegerSqrtNext)


(***************************************************************************)
(* The base-10 pruning engine (src/pruning_algorithm.js, first module).    *)
(***************************************************************************)
\* the value `true` that globalFeasible returns on an exact match; the other
\* verdicts are the numbers 0 (feasible) and 1..9 (the check that pruned)
ExactMatch == 10

\* check #1 of globalFeasible (line 71)
symmetryViolatedStrict(P_value, Q_value) == P_value >= Q_value

\* check #1 left out
symmetryNeverViolated(P_value, Q_value) == FALSE

symmetryViolated(P_value, Q_value) == P_value > Q_value

\* the condition of check #2 (line 78); the first definition applies the check
\* one position early, the second never
exactTerminationAppliesEarly(remainingDigits) == remainingDigits <= 1

exactTerminationNeverApplies(remainingDigits) == FALSE

exactTerminationApplies(remainingDigits) == remainingDigits = 0

\* lines 113-115: maxLinearTerm + maxQuadraticTerm; the first definition leaves
\* the quadratic term out
maxContributionLinearOnly(P_value, Q_value, M, powerK, power2K) ==
    powerK * (P_value * M + Q_value * M)

maxContributionOf(P_value, Q_value, M, powerK, power2K) ==
    LET maxLinearTerm == powerK * (P_value * M + Q_value * M)
        maxQuadraticTerm == power2K * (M * M)
    IN  maxLinearTerm + maxQuadraticTerm

globalFeasible(st, P_value, Q_value, N, k, totalDigits, sqrtN) ==
    LET remainingDigits == totalDigits - k
        base == P_value * Q_value
        gap == N - base
        M == powerOf10(remainingDigits) - 1
        powerK == powerOf10(k)
        power2K == powerOf10(2 * k)
        maxLinearTerm == powerK * (P_value * M + Q_value * M)
        maxQuadraticTerm == power2K * (M * M)
        maxContribution == maxContributionOf(P_value, Q_value, M, powerK, power2K)
        minA == IF remainingDigits = 1 THEN 1 ELSE 0
        minB == IF remainingDigits = 1 THEN 1 ELSE 0
        minContribution ==
            powerK * (P_value * minB + Q_value * minA) + power2K * (minA * minB)
        Pmax == P_value + M * powerK
        minRequiredQ == (N + Pmax - 1) \div Pmax
        Qmax == Q_value + M * powerK
    IN  IF symmetryViolated(P_value, Q_value) THEN 1
        ELSE IF exactTerminationApplies(remainingDigits)
        THEN IF P_value <= 1 \/ Q_value <= 1 THEN 2
             ELSE IF P_value = 0 \/ Q_value = 0 THEN 2
             ELSE IF P_value * Q_value = N THEN ExactMatch ELSE 2
        ELSE IF base > N THEN 3
        ELSE IF P_value > sqrtN THEN 4
        ELSE IF gap < 0 THEN 3
        ELSE IF maxContribution < gap THEN 5
        ELSE IF gap > 0 /\ minContribution > gap THEN 6
        ELSE IF maxLinearTerm + maxQuadraticTerm < gap THEN 5
        ELSE IF Pmax <= sqrtN /\ Qmax < minRequiredQ THEN 8
        ELSE 0

\* the exponents globalFeasible passes to powerOf10 on these arguments
globalFeasiblePowers(P_value, Q_value, N, k, totalDigits, sqrtN) ==
    IF \/ symmetryViolated(P_value, Q_value)
       \/ totalDigits - k = 0
       \/ P_value * Q_value > N
       \/ P_value > sqrtN
    THEN {}
    ELSE {totalDigits - k, k, 2 * k}

checkSolution(branch, N) ==
    LET p == branch.P_value
        q == branch.Q_value
    IN  p > 1 /\ q > 1 /\ p * q = N

\* p_history[i] of the source (0-based), 0 when the index is out of range
At0(history, i) == IF i >= 0 /\ i < Len(history) THEN history[i + 1] ELSE 0

\* lines 257-264: the interior terms p_2*q_{k-1} + ... + p_{k-1}*q_2
RECURSIVE baseSumFrom(_, _, _, _)
baseSumFrom(i, k, p_history, q_history) ==
    IF i >= k THEN 0
    ELSE (IF i - 1 < Len(p_history) /\ k - i >= 0 /\ k - i < Len(q_history)
          THEN multiplyDigits(p_history[i], q_history[k - i + 1])
          ELSE 0)
         + baseSumFrom(i + 1, k, p_history, q_history)

\* the digit pairs in the order of the two nested loops: pk outer, qk inner
DigitPairs(base) ==
    [i \in 1..(base * base) |-> << (i - 1) \div base, (i - 1) % base >>]

\* the envelope with 9 * k in place of 81 * k
maxCarryOutTight(k, carry_in) == (9 * k + carry_in) \div 10

\* lines 251-253
maxCarryOut(k, carry_in) == (81 * k + carry_in) \div 10

\* The body of the two loops of workFunction for one pair (pk, qk):
\* kind "skip" (continue before the pruning cascade), "pruned" (verdict 1..9)
\* or "child" (pushed to nextStates).
workCandidate(input, baseSum, pk, qk) ==
    LET k == input.k
        target_digit == input.N_digits[k]
        isLastDigit == (k = Len(input.N_digits))
        totalDigits == Len(input.N_digits)
        q1 == At0(input.q_history, 0)
        p1 == At0(input.p_history, 0)
        sumOfProducts == IF k = 1 THEN multiplyDigits(pk, qk)
                         ELSE baseSum + multiplyDigits(p1, qk) + multiplyDigits(pk, q1)
        total == sumOfProducts + input.carry_in
        remainder == total - target_digit
        carry_out == remainder \div 10
        powerK == powerOf10(k - 1)
        new_P_value == input.P_value + pk * powerK
        new_Q_value == input.Q_value + qk * powerK
        newState == [k |-> k,
                     p_history |-> Append(input.p_history, pk),
                     q_history |-> Append(input.q_history, qk)]
        feasibleResult == globalFeasible(newState, new_P_value, new_Q_value,
                                         input.N, k, totalDigits, input.sqrtN)
    IN  IF total < target_digit THEN [kind |-> "skip", powers |-> {}]
        ELSE IF remainder % 10 # 0 THEN [kind |-> "skip", powers |-> {}]
        ELSE IF carry_out < 0 \/ carry_out > maxCarryOut(k, input.carry_in)
                \/ (isLastDigit /\ carry_out # 0)
        THEN [kind |-> "skip", powers |-> {}]
        ELSE LET powers == {k - 1} \cup globalFeasiblePowers(new_P_value, new_Q_value,
                                            input.N, k, totalDigits, input.sqrtN)
             IN  IF feasibleResult # 0 /\ feasibleResult # ExactMatch
                 THEN [kind |-> "pruned", verdict |-> feasibleResult, powers |-> powers]
                 ELSE [kind |-> "child", powers |-> powers,
                       node |-> [k |-> k + 1,
                                 p_history |-> Append(input.p_history, pk),
                                 q_history |-> Append(input.q_history, qk),
                                 P_value |-> new_P_value,
                                 Q_value |-> new_Q_value,
                                 carry_in |-> carry_out,
                                 pk |-> pk,
                                 qk |-> qk,
                                 lastTwoDigits |-> LastTwoDigits(pk, qk, 10)]]

CountVerdict(cands, v) ==
    Cardinality({i \in 1..Len(cands) : cands[i].kind = "pruned" /\ cands[i].verdict = v})

IsChild(c) == c.kind = "child"

\* workFunction (lines 221-352).  pairs is the order in which the two loops
\* visit the digit pairs: DigitPairs(10) in the source (pk outer, qk inner).
workFunction(input, pairs) ==
    IF input.k < 1 \/ input.k > Len(input.N_digits)
    THEN [states |-> << >>, pruningStats |-> EmptyMap, powers |-> {}]
    ELSE LET baseSum == baseSumFrom(2, input.k, input.p_history, input.q_history)
             cands == [i \in 1..Len(pairs) |->
                          workCandidate(input, baseSum, pairs[i][1], pairs[i][2])]
             kept == SelectSeq(cands, IsChild)
         IN  [states |-> [i \in 1..Len(kept) |-> kept[i].node],
              pruningStats |-> [v \in 1..9 |-> CountVerdict(cands, v)],
              powers |-> UNION {cands[i].powers : i \in 1..Len(cands)}]

(***************************************************************************)
(* Helpers shared by the step functions (src/common.js).                   *)
(***************************************************************************)
RECURSIVE SumRange(_, _, _)
SumRange(f, lo, hi) ==
    IF lo > hi THEN 0
    ELSE IF lo = hi THEN f[lo]
    ELSE SumRange(f, lo, (lo + hi) \div 2) + SumRange(f, (lo + hi) \div 2 + 1, hi)

SumTo(f, n) == SumRange(f, 1, n)

\* pruningStats[v] || 0
Stat(pruningStats, v) == IF v \in DOMAIN pruningStats THEN pruningStats[v] ELSE 0

\* candidates.forEach(result => allResults.push({ ...result, parentIdx }))
WithParent(states, parentIdx) ==
    [i \in 1..Len(states) |->
        [k |-> states[i].k,
         p_history |-> states[i].p_history,
         q_history |-> states[i].q_history,
         P_value |-> states[i].P_value,
         Q_value |-> states[i].Q_value,
         carry_in |-> states[i].carry_in,
         pk |-> states[i].pk,
         qk |-> states[i].qk,
         lastTwoDigits |-> states[i].lastTwoDigits,
         parentIdx |-> parentIdx]]

\* state.frontier.forEach: the branches are visited in the order of the
\* sequence order (1..Len(frontier) in the source); parentIdx is 0-based
RECURSIVE collectResults(_, _, _)
collectResults(results, order, i) ==
    IF i > Len(order) THEN << >>
    ELSE WithParent(results[order[i]].states, order[i] - 1)
         \o collectResults(results, order, i + 1)

FrontierOrder(st) == [i \in 1..Len(st.frontier) |-> i]

\* no solutionIdx (null)
NoSolutionIdx == 0 - 1

mapBranchesToHistory(branches, solutionIdx) ==
    [i \in 1..Len(branches) |->
        [pk |-> branches[i].pk,
         qk |-> branches[i].qk,
         lastTwoDigits |-> branches[i].lastTwoDigits,
         carry |-> branches[i].carry_in,
         isSolution |-> (i - 1 = solutionIdx),
         parentIdx |-> branches[i].parentIdx]]

\* the same path with the positions counted from 0
buildSolutionPathZeroBased(branch) ==
    [i \in 1..Len(branch.p_history) |->
        [k |-> i - 1, pk |-> branch.p_history[i], qk |-> At0(branch.q_history, i - 1)]]

buildSolutionPath(branch) ==
    [i \in 1..Len(branch.p_history) |->
        [k |-> i, pk |-> branch.p_history[i], qk |-> At0(branch.q_history, i - 1)]]

\* the indices (1-based) of the branches the solution loop accepts
SolutionIndices(allResults, N) ==
    {i \in 1..Len(allResults) :
        allResults[i].carry_in = 0 /\ checkSolution(allResults[i], N)}

\* the first index the loop `for (branchIdx = 0; ...)` returns on; LastIndex is
\* the index a loop running downwards would return on
LastIndex(S) == CHOOSE i \in S : \A j \in S : i >= j

FirstIndex(S) == CHOOSE i \in S : \A j \in S : i <= j

\* { ...branch, k: currentK, N_digits, N, sqrtN }
branchInput(st, branch, currentK) ==
    [k |-> currentK,
     p_history |-> branch.p_history,
     q_history |-> branch.q_history,
     P_value |-> branch.P_value,
     Q_value |-> branch.Q_value,
     carry_in |-> branch.carry_in,
     N_digits |-> st.N_digits,
     N |-> st.N_big,
     sqrtN |-> st.sqrtN]

\* the single empty node of an initial frontier
EmptyNode(N_digits) ==
    [k |-> 1, p_history |-> << >>, q_history |-> << >>, P_value |-> 0,
     Q_value |-> 0, carry_in |-> 0, N_digits |-> N_digits]

(***************************************************************************)
(* initializeAlgorithm and stepAlgorithm of the pruning engine.            *)
(***************************************************************************)
\* the object with sqrtN one below the value integerSqrt returned
initializeAlgorithmLowSqrt(p, q, sqrtN) ==
    [p |-> p, q |-> q, N |-> p * q, N_big |-> p * q, sqrtN |-> sqrtN - 1,
     N_digits |-> DecimalDigitsLSD(p * q),
     frontier |-> << EmptyNode(DecimalDigitsLSD(p * q)) >>,
     step |-> 0, history |-> << >>,
     activeBranches |-> 1, maxActiveBranches |-> 1,
     nodesVisited |-> 0, nodesPruned |-> 0, maxFrontierWidth |-> 1,
     pruningStats |-> EmptyMap,
     done |-> FALSE, success |-> FALSE,
     foundP |-> << >>, foundQ |-> << >>, solutionPath |-> << >>]

\* the object initializeAlgorithm returns (lines 379-403); pruningStats, done,
\* success, foundP, foundQ and solutionPath are absent from it
initializeAlgorithm(p, q, sqrtN) ==
    [p |-> p, q |-> q, N |-> p * q, N_big |-> p * q, sqrtN |-> sqrtN,
     N_digits |-> DecimalDigitsLSD(p * q),
     frontier |-> << EmptyNode(DecimalDigitsLSD(p * q)) >>,
     step |-> 0, history |-> << >>,
     activeBranches |-> 1, maxActiveBranches |-> 1,
     nodesVisited |-> 0, nodesPruned |-> 0, maxFrontierWidth |-> 1,
     pruningStats |-> EmptyMap,
     done |-> FALSE, success |-> FALSE,
     foundP |-> << >>, foundQ |-> << >>, solutionPath |-> << >>]

\* the state returned when no branch survives (lines 484-495), when the last
\* digit leaves no solution (lines 531-543) and when the search goes on
\* (lines 546-568)
exhaustedStateNotDone(st, nodesVisited, nodesPruned, stats) ==
    [st EXCEPT !.activeBranches = 0,
               !.nodesVisited = nodesVisited,
               !.nodesPruned = nodesPruned,
               !.pruningStats = stats]

exhaustedState(st, nodesVisited, nodesPruned, stats) ==
    [st EXCEPT !.done = TRUE,
               !.activeBranches = 0,
               !.nodesVisited = nodesVisited,
               !.nodesPruned = nodesPruned,
               !.pruningStats = stats]

noSolutionState(st, allResults, nodesVisited, nodesPruned, stats) ==
    [st EXCEPT !.done = TRUE,
               !.activeBranches = Len(allResults),
               !.maxActiveBranches = Max2(st.maxActiveBranches, Len(allResults)),
               !.nodesVisited = nodesVisited,
               !.nodesPruned = nodesPruned,
               !.maxFrontierWidth = Max2(st.maxFrontierWidth, Len(allResults)),
               !.pruningStats = stats]

continuedState(st, currentK, allResults, nodesVisited, nodesPruned, stats) ==
    [st EXCEPT
        !.step = currentK,
        !.frontier = allResults,
        !.history = Append(st.history,
                           [k |-> currentK,
                            target_digit |-> st.N_digits[currentK],
                            branches |-> mapBranchesToHistory(allResults, NoSolutionIdx)]),
        !.activeBranches = Len(allResults),
        !.maxActiveBranches = Max2(st.maxActiveBranches, Len(allResults)),
        !.nodesVisited = nodesVisited,
        !.nodesPruned = nodesPruned,
        !.maxFrontierWidth = Max2(st.maxFrontierWidth, Len(allResults)),
        !.pruningStats = stats]

\* the state returned on success (lines 508-527), as written and with foundQ
\* taken from the wrong factor
solvedStateWrongQ(st, currentK, allResults, branchIdx, nodesVisited, nodesPruned, stats) ==
    [st EXCEPT
        !.step = currentK,
        !.frontier = allResults,
        !.history = Append(st.history,
                           [k |-> currentK,
                            target_digit |-> st.N_digits[currentK],
                            branches |-> mapBranchesToHistory(allResults, branchIdx)]),
        !.success = TRUE,
        !.foundP = BigIntToString(allResults[branchIdx + 1].P_value),
        !.foundQ = BigIntToString(allResults[branchIdx + 1].P_value),
        !.solutionPath = buildSolutionPath(allResults[branchIdx + 1]),
        !.activeBranches = Len(allResults),
        !.maxActiveBranches = Max2(st.maxActiveBranches, Len(allResults)),
        !.nodesVisited = nodesVisited,
        !.nodesPruned = nodesPruned,
        !.maxFrontierWidth = Max2(st.maxFrontierWidth, Len(allResults)),
        !.pruningStats = stats]

solvedState(st, currentK, allResults, branchIdx, nodesVisited, nodesPruned, stats) ==
    [st EXCEPT
        !.step = currentK,
        !.frontier = allResults,
        !.history = Append(st.history,
                           [k |-> currentK,
                            target_digit |-> st.N_digits[currentK],
                            branches |-> mapBranchesToHistory(allResults, branchIdx)]),
        !.success = TRUE,
        !.foundP = BigIntToString(allResults[branchIdx + 1].P_value),
        !.foundQ = BigIntToString(allResults[branchIdx + 1].Q_value),
        !.solutionPath = buildSolutionPath(allResults[branchIdx + 1]),
        !.activeBranches = Len(allResults),
        !.maxActiveBranches = Max2(st.maxActiveBranches, Len(allResults)),
        !.nodesVisited = nodesVisited,
        !.nodesPruned = nodesPruned,
        !.maxFrontierWidth = Max2(st.maxFrontierWidth, Len(allResults)),
        !.pruningStats = stats]

\* lines 451-481 of stepAlgorithm: the forEach over the frontier and the
\* aggregation of the statistics.  order is the order in which the branches are
\* visited and pairs the order of the digit loops.
stepResults(st, currentK, order, pairs) ==
    LET results == [i \in 1..Len(st.frontier) |->
                       workFunction(branchInput(st, st.frontier[i], currentK), pairs)]
    IN  [allResults |-> collectResults(results, order, 1),
         visited |-> 100 * Len(order),
         pruned |-> SumTo([i \in 1..Len(order) |-> 100 - Len(results[order[i]].states)],
                          Len(order)),
         stepPruningStats |->
             [v \in 1..9 |->
                 SumTo([i \in 1..Len(order) |-> Stat(results[order[i]].pruningStats, v)],
                       Len(order))],
         powers |-> UNION {results[order[i]].powers : i \in 1..Len(order)}]

\* lines 483-568 of stepAlgorithm: the state returned for the step's results
stepOutcome(st, currentK, allResults, nodesVisited, nodesPruned, updatedPruningStats) ==
    IF Len(allResults) = 0
    THEN exhaustedState(st, nodesVisited, nodesPruned, updatedPruningStats)
    ELSE IF currentK = Len(st.N_digits) /\ SolutionIndices(allResults, st.N) # {}
    THEN solvedState(st, currentK, allResults,
                     FirstIndex(SolutionIndices(allResults, st.N)) - 1,
                     nodesVisited, nodesPruned, updatedPruningStats)
    ELSE IF currentK = Len(st.N_digits)
    THEN noSolutionState(st, allResults, nodesVisited, nodesPruned, updatedPruningStats)
    ELSE continuedState(st, currentK, allResults, nodesVisited, nodesPruned,
                        updatedPruningStats)

\* the step's results turned into the returned state and the exponents that
\* were passed to powerOf10
stepFinish(st, currentK, r) ==
    [next |-> stepOutcome(st, currentK, r.allResults,
                          st.nodesVisited + r.visited,
                          st.nodesPruned + r.pruned,
                          [v \in 1..9 |-> Stat(st.pruningStats, v) + r.stepPruningStats[v]]),
     powers |-> r.powers]

\* stepAlgorithm (lines 431-569).  The source visits the frontier in the order
\* FrontierOrder(st) and the digit pairs in the order DigitPairs(10).
stepAlgorithmResetting(st, order, pairs) ==
    IF st.step + 1 > Len(st.N_digits)
    THEN [next |-> [st EXCEPT !.done = TRUE, !.success = FALSE], powers |-> {}]
    ELSE stepFinish(st, st.step + 1, stepResults(st, st.step + 1, order, pairs))

stepAlgorithm(st, order, pairs) ==
    IF st.step + 1 > Len(st.N_digits)
    THEN [next |-> [st EXCEPT !.done = TRUE], powers |-> {}]
    ELSE stepFinish(st, st.step + 1, stepResults(st, st.step + 1, order, pairs))

(***************************************************************************)
(* The base-generalized engine (src/common.js).                            *)
(***************************************************************************)
\* the envelope with (base - 1) * k in place of (base - 1)^2 * k
maxCarryOutBaseTight(base, k, carry_in) == ((base - 1) * k + carry_in) \div base

\* lines 240-242
maxCarryOutBase(base, k, carry_in) == ((base - 1) * (base - 1) * k + carry_in) \div base

\* p_2*q_{k-1} + ... + p_{k-1}*q_2 with plain products (lines 245-252)
RECURSIVE baseSumBaseFrom(_, _, _, _)
baseSumBaseFrom(i, k, p_history, q_history) ==
    IF i >= k THEN 0
    ELSE (IF i - 1 < Len(p_history) /\ k - i >= 0 /\ k - i < Len(q_history)
          THEN p_history[i] * q_history[k - i + 1]
          ELSE 0)
         + baseSumBaseFrom(i + 1, k, p_history, q_history)

\* lines 285-329 of workFunctionBase: the pruning checks on the extended values;
\* 0 when the candidate is kept, else the pruningStats key that is counted.
\* The first definition is the cascade with the symmetry check put back.
feasibleBaseWithSymmetry(new_P_value, new_Q_value, N, sqrtN, k, totalDigits, base) ==
    LET remainingDigits == totalDigits - k
        M == powerOfBase(base, remainingDigits) - 1
        powerK_remaining == powerOfBase(base, k)
        Pmax == new_P_value + M * powerK_remaining
        Qmax == new_Q_value + M * powerK_remaining
    IN  IF new_P_value > new_Q_value THEN 1
        ELSE IF new_P_value * new_Q_value > N THEN 3
        ELSE IF new_P_value > sqrtN THEN 4
        ELSE IF remainingDigits = 0 /\ (new_P_value <= 1 \/ new_Q_value <= 1) THEN 2
        ELSE IF remainingDigits = 0 /\ new_P_value * new_Q_value # N THEN 2
        ELSE IF remainingDigits > 0 /\ Pmax * Qmax < N THEN 5
        ELSE 0

\* the checks without the square-root bound #4
feasibleBaseNoSqrt(new_P_value, new_Q_value, N, sqrtN, k, totalDigits, base) ==
    LET remainingDigits == totalDigits - k
        M == powerOfBase(base, remainingDigits) - 1
        powerK_remaining == powerOfBase(base, k)
        Pmax == new_P_value + M * powerK_remaining
        Qmax == new_Q_value + M * powerK_remaining
    IN  IF new_P_value * new_Q_value > N THEN 3
        ELSE IF remainingDigits = 0 /\ (new_P_value <= 1 \/ new_Q_value <= 1) THEN 2
        ELSE IF remainingDigits = 0 /\ new_P_value * new_Q_value # N THEN 2
        ELSE IF remainingDigits > 0 /\ Pmax * Qmax < N THEN 5
        ELSE 0

feasibleBase(new_P_value, new_Q_value, N, sqrtN, k, totalDigits, base) ==
    LET remainingDigits == totalDigits - k
        M == powerOfBase(base, remainingDigits) - 1
        powerK_remaining == powerOfBase(base, k)
        Pmax == new_P_value + M * powerK_remaining
        Qmax == new_Q_value + M * powerK_remaining
    IN  IF new_P_value * new_Q_value > N THEN 3
        ELSE IF new_P_value > sqrtN THEN 4
        ELSE IF remainingDigits = 0 /\ (new_P_value <= 1 \/ new_Q_value <= 1) THEN 2
        ELSE IF remainingDigits = 0 /\ new_P_value * new_Q_value # N THEN 2
        ELSE IF remainingDigits > 0 /\ Pmax * Qmax < N THEN 5
        ELSE 0

\* lines 277-283 and 331-341: the child pushed for a kept candidate; the first
\* definition stores the remainder (carry_out * base) as the carry of the child
workChildBaseKeepsRemainder(input, base, pk, qk, carry_out, verdict) ==
    IF verdict # 0 THEN [kind |-> "pruned", verdict |-> verdict]
    ELSE [kind |-> "child",
          node |-> [k |-> input.k + 1,
                    p_history |-> Append(input.p_history, pk),
                    q_history |-> Append(input.q_history, qk),
                    P_value |-> input.P_value + pk * powerOfBase(base, input.k - 1),
                    Q_value |-> input.Q_value + qk * powerOfBase(base, input.k - 1),
                    carry_in |-> carry_out * base,
                    pk |-> pk,
                    qk |-> qk,
                    lastTwoDigits |-> LastTwoDigits(pk, qk, base)]]

\* the child with the digit placed at base^k instead of base^(k-1)
workChildBaseShiftedPower(input, base, pk, qk, carry_out, verdict) ==
    IF verdict # 0 THEN [kind |-> "pruned", verdict |-> verdict]
    ELSE [kind |-> "child",
          node |-> [k |-> input.k + 1,
                    p_history |-> Append(input.p_history, pk),
                    q_history |-> Append(input.q_history, qk),
                    P_value |-> input.P_value + pk * powerOfBase(base, input.k),
                    Q_value |-> input.Q_value + qk * powerOfBase(base, input.k),
                    carry_in |-> carry_out,
                    pk |-> pk,
                    qk |-> qk,
                    lastTwoDigits |-> LastTwoDigits(pk, qk, base)]]

workChildBase(input, base, pk, qk, carry_out, verdict) ==
    IF verdict # 0 THEN [kind |-> "pruned", verdict |-> verdict]
    ELSE [kind |-> "child",
          node |-> [k |-> input.k + 1,
                    p_history |-> Append(input.p_history, pk),
                    q_history |-> Append(input.q_history, qk),
                    P_value |-> input.P_value + pk * powerOfBase(base, input.k - 1),
                    Q_value |-> input.Q_value + qk * powerOfBase(base, input.k - 1),
                    carry_in |-> carry_out,
                    pk |-> pk,
                    qk |-> qk,
                    lastTwoDigits |-> LastTwoDigits(pk, qk, base)]]

\* the body of the two loops of workFunctionBase for one pair (pk, qk)
workCandidateBase(input, base, baseSum, pk, qk) ==
    LET k == input.k
        target_digit == input.N_digits[k]
        isLastDigit == (k = Len(input.N_digits))
        totalDigits == Len(input.N_digits)
        q1 == At0(input.q_history, 0)
        p1 == At0(input.p_history, 0)
        sumOfProducts == IF k = 1 THEN pk * qk ELSE baseSum + p1 * qk + pk * q1
        total == sumOfProducts + input.carry_in
        remainder == total - target_digit
        carry_out == remainder \div base
    IN  IF total < target_digit THEN [kind |-> "skip"]
        ELSE IF remainder % base # 0 THEN [kind |-> "skip"]
        ELSE IF carry_out < 0 \/ carry_out > maxCarryOutBase(base, k, input.carry_in)
                \/ (isLastDigit /\ carry_out # 0)
        THEN [kind |-> "skip"]
        ELSE workChildBase(input, base, pk, qk, carry_out,
                           feasibleBase(input.P_value + pk * powerOfBase(base, k - 1),
                                        input.Q_value + qk * powerOfBase(base, k - 1),
                                        input.N, input.sqrtN, k, Len(input.N_digits), base))

\* workFunctionBase (lines 211-347)
workFunctionBase(input, base) ==
    IF input.k < 1 \/ input.k > Len(input.N_digits)
    THEN [states |-> << >>, pruningStats |-> EmptyMap]
    ELSE LET baseSum == baseSumBaseFrom(2, input.k, input.p_history, input.q_history)
             pairs == DigitPairs(base)
             cands == [i \in 1..Len(pairs) |->
                          workCandidateBase(input, base, baseSum, pairs[i][1], pairs[i][2])]
             kept == SelectSeq(cands, IsChild)
         IN  [states |-> [i \in 1..Len(kept) |-> kept[i].node],
              pruningStats |-> [v \in 1..9 |-> CountVerdict(cands, v)]]

\* the object initializeAlgorithmBase returns (lines 537-563); startTime is
\* Date.now() at the call
initializeAlgorithmBase(p, q, base, sqrtN, now) ==
    [base |-> base, p |-> p, q |-> q, N |-> p * q, N_big |-> p * q, sqrtN |-> sqrtN,
     N_digits |-> numberToBaseDigits(p * q, base),
     frontier |-> << EmptyNode(numberToBaseDigits(p * q, base)) >>,
     step |-> 0, history |-> << >>,
     activeBranches |-> 1, maxActiveBranches |-> 1,
     nodesVisited |-> 0, nodesPruned |-> 0, maxFrontierWidth |-> 1,
     startTime |-> now, success |-> FALSE,
     done |-> FALSE, foundP |-> << >>, foundQ |-> << >>, solutionPath |-> << >>,
     elapsedTime |-> 0]

\* the states stepAlgorithmBase returns: no branch survives (lines 610-618),
\* success (lines 631-650), the last digit leaves no solution (lines 656-664),
\* the search goes on (lines 677-687)
exhaustedStateBaseNotDone(st, nodesVisited, nodesPruned) ==
    [st EXCEPT !.activeBranches = 0,
               !.nodesVisited = nodesVisited,
               !.nodesPruned = nodesPruned]

exhaustedStateBase(st, nodesVisited, nodesPruned) ==
    [st EXCEPT !.done = TRUE,
               !.activeBranches = 0,
               !.nodesVisited = nodesVisited,
               !.nodesPruned = nodesPruned]

solvedStateBase(st, currentK, allResults, branchIdx, nodesVisited, nodesPruned, now) ==
    [st EXCEPT
        !.step = currentK,
        !.frontier = allResults,
        !.history = Append(st.history,
                           [k |-> currentK,
                            target_digit |-> st.N_digits[currentK],
                            branches |-> mapBranchesToHistory(allResults, branchIdx)]),
        !.success = TRUE,
        !.foundP = BigIntToString(allResults[branchIdx + 1].P_value),
        !.foundQ = BigIntToString(allResults[branchIdx + 1].Q_value),
        !.solutionPath = buildSolutionPath(allResults[branchIdx + 1]),
        !.activeBranches = Len(allResults),
        !.maxActiveBranches = Max2(st.maxActiveBranches, Len(allResults)),
        !.nodesVisited = nodesVisited,
        !.nodesPruned = nodesPruned,
        !.maxFrontierWidth = Max2(st.maxFrontierWidth, Len(allResults)),
        !.elapsedTime = now - st.startTime]

noSolutionStateBase(st, allResults, nodesVisited, nodesPruned) ==
    [st EXCEPT !.done = TRUE,
               !.activeBranches = Len(allResults),
               !.maxActiveBranches = Max2(st.maxActiveBranches, Len(allResults)),
               !.nodesVisited = nodesVisited,
               !.nodesPruned = nodesPruned,
               !.maxFrontierWidth = Max2(st.maxFrontierWidth, Len(allResults))]

continuedStateBase(st, currentK, allResults, nodesVisited, nodesPruned) ==
    [st EXCEPT
        !.step = currentK,
        !.frontier = allResults,
        !.history = Append(st.history,
                           [k |-> currentK,
                            target_digit |-> st.N_digits[currentK],
                            branches |-> mapBranchesToHistory(allResults, NoSolutionIdx)]),
        !.activeBranches = Len(allResults),
        !.maxActiveBranches = Max2(st.maxActiveBranches, Len(allResults)),
        !.nodesVisited = nodesVisited,
        !.nodesPruned = nodesPruned,
        !.maxFrontierWidth = Max2(st.maxFrontierWidth, Len(allResults))]

\* lines 586-607 of stepAlgorithmBase: the forEach over the frontier
stepResultsBase(st, currentK, base) ==
    LET results == [i \in 1..Len(st.frontier) |->
                       workFunctionBase(branchInput(st, st.frontier[i], currentK), base)]
    IN  [allResults |-> collectResults(results, FrontierOrder(st), 1),
         visited |-> base * base * Len(st.frontier),
         pruned |-> SumTo([i \in 1..Len(results) |-> base * base - Len(results[i].states)],
                          Len(results))]

\* lines 609-687 of stepAlgorithmBase: the state returned for the step's results
stepOutcomeBase(st, currentK, allResults, nodesVisited, nodesPruned, now) ==
    IF Len(allResults) = 0
    THEN exhaustedStateBase(st, nodesVisited, nodesPruned)
    ELSE IF currentK = Len(st.N_digits) /\ SolutionIndices(allResults, st.N_big) # {}
    THEN solvedStateBase(st, currentK, allResults,
                         FirstIndex(SolutionIndices(allResults, st.N_big)) - 1,
                         nodesVisited, nodesPruned, now)
    ELSE IF currentK = Len(st.N_digits)
    THEN noSolutionStateBase(st, allResults, nodesVisited, nodesPruned)
    ELSE continuedStateBase(st, currentK, allResults, nodesVisited, nodesPruned)

stepFinishBase(st, currentK, r, now) ==
    stepOutcomeBase(st, currentK, r.allResults, st.nodesVisited + r.visited,
                    st.nodesPruned + r.pruned, now)

\* stepAlgorithmBase (lines 573-688).  nows holds the values Date.now() may
\* return at line 649; the result is the set of states the call may return.
stepAlgorithmBase(st, base, nows) ==
    IF st.step + 1 > Len(st.N_digits)
    THEN {[st EXCEPT !.done = TRUE]}
    ELSE LET r == stepResultsBase(st, st.step + 1, base)
         IN  {stepFinishBase(st, st.step + 1, r, now) : now \in nows}

\* the loop condition of runAlgorithmForBase (line 702)
runLoopCondition(st) == ~st.done /\ ~st.success /\ st.step < Len(st.N_digits)

(***************************************************************************)
(* The basic engine (src/pruning_algorithm.js, second module): the         *)
(* recurrence and a fixed carry cap, no feasibility check.  Its functions  *)
(* are named workFunction, initializeAlgorithm and stepAlgorithm in the    *)
(* source, as those of the pruning engine.                                 *)
(***************************************************************************)
\* the cap on carry_out at line 638
MaxCarryBasic == 10

\* the loop body without the test of line 635 (remainder % 10 === 0)
workCandidateBasicAnyRemainder(input, baseSum, pk, qk) ==
    LET k == input.k
        total == (IF k = 1 THEN multiplyDigits(pk, qk)
                  ELSE baseSum + multiplyDigits(At0(input.p_history, 0), qk)
                       + multiplyDigits(pk, At0(input.q_history, 0)))
                 + input.carry_in
        carry_out == (total - input.N_digits[k]) \div 10
    IN  IF total < input.N_digits[k] THEN [kind |-> "skip"]
        ELSE IF carry_out <= MaxCarryBasic /\ (k # Len(input.N_digits) \/ carry_out = 0)
        THEN [kind |-> "child",
              node |-> [k |-> k + 1,
                        p_history |-> Append(input.p_history, pk),
                        q_history |-> Append(input.q_history, qk),
                        P_value |-> input.P_value + pk * powerOf10(k - 1),
                        Q_value |-> input.Q_value + qk * powerOf10(k - 1),
                        carry_in |-> carry_out,
                        pk |-> pk,
                        qk |-> qk,
                        lastTwoDigits |-> LastTwoDigits(pk, qk, 10)]]
        ELSE [kind |-> "skip"]

\* the loop body without the last-digit condition of line 638
\* (!isLastDigit || carry_out === 0)
workCandidateBasicAnyTerminalCarry(input, baseSum, pk, qk) ==
    LET k == input.k
        total == (IF k = 1 THEN multiplyDigits(pk, qk)
                  ELSE baseSum + multiplyDigits(At0(input.p_history, 0), qk)
                       + multiplyDigits(pk, At0(input.q_history, 0)))
                 + input.carry_in
        remainder == total - input.N_digits[k]
    IN  IF total < input.N_digits[k] \/ remainder % 10 # 0 \/ remainder \div 10 > MaxCarryBasic
        THEN [kind |-> "skip"]
        ELSE [kind |-> "child",
              node |-> [k |-> k + 1,
                        p_history |-> Append(input.p_history, pk),
                        q_history |-> Append(input.q_history, qk),
                        P_value |-> input.P_value + pk * powerOf10(k - 1),
                        Q_value |-> input.Q_value + qk * powerOf10(k - 1),
                        carry_in |-> remainder \div 10,
                        pk |-> pk,
                        qk |-> qk,
                        lastTwoDigits |-> LastTwoDigits(pk, qk, 10)]]

\* lines 621-663: the body of the two loops for one pair (pk, qk)
workCandidateBasic(input, baseSum, pk, qk) ==
    LET k == input.k
        target_digit == input.N_digits[k]
        isLastDigit == (k = Len(input.N_digits))
        q1 == At0(input.q_history, 0)
        p1 == At0(input.p_history, 0)
        sumOfProducts == IF k = 1 THEN multiplyDigits(pk, qk)
                         ELSE baseSum + multiplyDigits(p1, qk) + multiplyDigits(pk, q1)
        total == sumOfProducts + input.carry_in
        remainder == total - target_digit
        carry_out == remainder \div 10
    IN  IF total < target_digit THEN [kind |-> "skip"]
        ELSE IF remainder % 10 # 0 THEN [kind |-> "skip"]
        ELSE IF carry_out >= 0 /\ carry_out <= MaxCarryBasic
                /\ (~isLastDigit \/ carry_out = 0)
        THEN [kind |-> "child",
              node |-> [k |-> k + 1,
                        p_history |-> Append(input.p_history, pk),
                        q_history |-> Append(input.q_history, qk),
                        P_value |-> input.P_value + pk * powerOf10(k - 1),
                        Q_value |-> input.Q_value + qk * powerOf10(k - 1),
                        carry_in |-> carry_out,
                        pk |-> pk,
                        qk |-> qk,
                        lastTwoDigits |-> LastTwoDigits(pk, qk, 10)]]
        ELSE [kind |-> "skip"]

\* the basic workFunction (lines 595-667); the interior sum of lines 608-615
\* is the loop of lines 257-264
workFunctionBasic(input) ==
    IF input.k < 1 \/ input.k > Len(input.N_digits)
    THEN << >>
    ELSE LET baseSum == baseSumFrom(2, input.k, input.p_history, input.q_history)
             pairs == DigitPairs(10)
             cands == [i \in 1..Len(pairs) |->
                          workCandidateBasic(input, baseSum, pairs[i][1], pairs[i][2])]
             kept == SelectSeq(cands, IsChild)
         IN  [i \in 1..Len(kept) |-> kept[i].node]

\* the object the basic initializeAlgorithm returns (lines 674-696)
initializeAlgorithmBasic(p, q) ==
    [p |-> p, q |-> q, N |-> p * q, N_big |-> p * q,
     N_digits |-> DecimalDigitsLSD(p * q),
     frontier |-> << EmptyNode(DecimalDigitsLSD(p * q)) >>,
     step |-> 0, history |-> << >>,
     activeBranches |-> 1, maxActiveBranches |-> 1,
     nodesVisited |-> 0, nodesPruned |-> 0, maxFrontierWidth |-> 1,
     done |-> FALSE, success |-> FALSE,
     foundP |-> << >>, foundQ |-> << >>, solutionPath |-> << >>]

\* lines 713-718: the input of workFunction for one branch
branchInputBasic(st, branch, currentK) ==
    [k |-> currentK,
     p_history |-> branch.p_history,
     q_history |-> branch.q_history,
     P_value |-> branch.P_value,
     Q_value |-> branch.Q_value,
     carry_in |-> branch.carry_in,
     N_digits |-> st.N_digits,
     N |-> st.N_big]

\* lines 712-724: the children of the branches lo, ..., hi of the frontier, in
\* the order of the branches
RECURSIVE collectResultsBasic(_, _, _)
collectResultsBasic(results, lo, hi) ==
    IF lo > hi THEN << >>
    ELSE IF lo = hi THEN WithParent(results[lo], lo - 1)
    ELSE collectResultsBasic(results, lo, (lo + hi) \div 2)
         \o collectResultsBasic(results, (lo + hi) \div 2 + 1, hi)

stepResultsBasic(st, currentK) ==
    LET results == [i \in 1..Len(st.frontier) |->
                       workFunctionBasic(branchInputBasic(st, st.frontier[i], currentK))]
    IN  [allResults |-> collectResultsBasic(results, 1, Len(results)),
         visited |-> 100 * Len(st.frontier),
         pruned |-> SumTo([i \in 1..Len(results) |-> 100 - Len(results[i])], Len(results))]

\* the states the basic stepAlgorithm returns: no branch survives (lines
\* 727-735), success (lines 748-766), the last digit leaves no solution (lines
\* 772-780), the search goes on (lines 793-803)
exhaustedStateBasic(st, nodesVisited, nodesPruned) ==
    [st EXCEPT !.done = TRUE,
               !.activeBranches = 0,
               !.nodesVisited = nodesVisited,
               !.nodesPruned = nodesPruned]

solvedStateBasic(st, currentK, allResults, branchIdx, nodesVisited, nodesPruned) ==
    [st EXCEPT
        !.step = currentK,
        !.frontier = allResults,
        !.history = Append(st.history,
                           [k |-> currentK,
                            target_digit |-> st.N_digits[currentK],
                            branches |-> mapBranchesToHistory(allResults, branchIdx)]),
        !.success = TRUE,
        !.foundP = BigIntToString(allResults[branchIdx + 1].P_value),
        !.foundQ = BigIntToString(allResults[branchIdx + 1].Q_value),
        !.solutionPath = buildSolutionPath(allResults[branchIdx + 1]),
        !.activeBranches = Len(allResults),
        !.maxActiveBranches = Max2(st.maxActiveBranches, Len(allResults)),
        !.nodesVisited = nodesVisited,
        !.nodesPruned = nodesPruned,
        !.maxFrontierWidth = Max2(st.maxFrontierWidth, Len(allResults))]

noSolutionStateBasic(st, allResults, nodesVisited, nodesPruned) ==
    [st EXCEPT !.done = TRUE,
               !.activeBranches = Len(allResults),
               !.maxActiveBranches = Max2(st.maxActiveBranches, Len(allResults)),
               !.nodesVisited = nodesVisited,
               !.nodesPruned = nodesPruned,
               !.maxFrontierWidth = Max2(st.maxFrontierWidth, Len(allResults))]

continuedStateBasic(st, currentK, allResults, nodesVisited, nodesPruned) ==
    [st EXCEPT
        !.step = currentK,
        !.frontier = allResults,
        !.history = Append(st.history,
                           [k |-> currentK,
                            target_digit |-> st.N_digits[currentK],
                            branches |-> mapBranchesToHistory(allResults, NoSolutionIdx)]),
        !.activeBranches = Len(allResults),
        !.maxActiveBranches = Max2(st.maxActiveBranches, Len(allResults)),
        !.nodesVisited = nodesVisited,
        !.nodesPruned = nodesPruned,
        !.maxFrontierWidth = Max2(st.maxFrontierWidth, Len(allResults))]

\* lines 726-803: the state returned for the step's results
stepOutcomeBasic(st, currentK, allResults, nodesVisited, nodesPruned) ==
    IF Len(allResults) = 0
    THEN exhaustedStateBasic(st, nodesVisited, nodesPruned)
    ELSE IF currentK = Len(st.N_digits) /\ SolutionIndices(allResults, st.N) # {}
    THEN solvedStateBasic(st, currentK, allResults,
                          FirstIndex(SolutionIndices(allResults, st.N)) - 1,
                          nodesVisited, nodesPruned)
    ELSE IF currentK = Len(st.N_digits)
    THEN noSolutionStateBasic(st, allResults, nodesVisited, nodesPruned)
    ELSE continuedStateBasic(st, currentK, allResults, nodesVisited, nodesPruned)

stepFinishBasic(st, currentK, r) ==
    [next |-> stepOutcomeBasic(st, currentK, r.allResults,
                               st.nodesVisited + r.visited, st.nodesPruned + r.pruned),
     powers |-> IF Len(r.allResults) > 0 THEN {currentK - 1} ELSE {}]

\* the basic stepAlgorithm (lines 699-804), with the exponents it passes to
\* powerOf10
stepAlgorithmBasic(st) ==
    IF st.step + 1 > Len(st.N_digits)
    THEN [next |-> [st EXCEPT !.done = TRUE], powers |-> {}]
    ELSE stepFinishBasic(st, st.step + 1, stepResultsBasic(st, st.step + 1))

(***************************************************************************)
(* The runs: one initialize call, then step calls.                         *)
(*   pruning engine: a caller (UI, benchmark) calls stepAlgorithm again    *)
(*   and again and keeps the result;                                       *)
(*   base engine: runAlgorithmForBase drives stepAlgorithmBase in its      *)
(*   loop and returns the final state, on which a caller may call          *)
(*   stepAlgorithmBase again.                                              *)
(***************************************************************************)
SqrtVarsUnchanged == UNCHANGED <<sqrt_pc, sqrt_n, x, prev>>

Terminal(st) == st.done \/ st.success

MayStepAgain == Terminal(state) => extraCalls < MaxExtraCalls

CountCall ==
    /\ calls' = calls + 1
    /\ extraCalls' = IF Terminal(state) THEN extraCalls + 1 ELSE extraCalls

\* the values of Date.now() for a state whose startTime is given
Clock(startTime) == startTime..(startTime + MaxElapsed)

\* initializeAlgorithm(p, q) returns once integerSqrt has returned (line 377)
InitializeAlgorithm ==
    /\ pc = "init"
    /\ engine = "pruning"
    /\ sqrt_pc = "returned"
    /\ state' = initializeAlgorithm(args.p, args.q, x)
    /\ pc' = "run"
    /\ UNCHANGED <<engine, args, POWER_10_CACHE, calls, extraCalls, other>>
    /\ SqrtVarsUnchanged

\* initializeAlgorithmBase(p, q, base), called at line 700, returns once
\* integerSqrt has returned (line 535)
InitializeAlgorithmBase ==
    /\ pc = "init"
    /\ engine = "base"
    /\ sqrt_pc = "returned"
    /\ state' = initializeAlgorithmBase(args.p, args.q, args.base, x, 0)
    /\ pc' = "run"
    /\ UNCHANGED <<engine, args, POWER_10_CACHE, calls, extraCalls, other>>
    /\ SqrtVarsUnchanged

\* the basic initializeAlgorithm(p, q); it does not call integerSqrt
InitializeAlgorithmBasic ==
    /\ pc = "init"
    /\ engine = "basic"
    /\ state' = initializeAlgorithmBasic(args.p, args.q)
    /\ pc' = "run"
    /\ UNCHANGED <<engine, args, POWER_10_CACHE, calls, extraCalls, other>>
    /\ SqrtVarsUnchanged

\* a caller calls the basic stepAlgorithm(state) and keeps the result
StepAlgorithmBasic ==
    /\ pc = "run"
    /\ engine = "basic"
    /\ MayStepAgain
    /\ \E r \in {stepAlgorithmBasic(state)} :
          /\ state' = r.next
          /\ POWER_10_CACHE' = CacheAfter(r.powers)
    /\ CountCall
    /\ UNCHANGED <<pc, engine, args, other>>
    /\ SqrtVarsUnchanged

\* a caller calls stepAlgorithm(state) and keeps the result
StepAlgorithm ==
    /\ pc = "run"
    /\ engine = "pruning"
    /\ MayStepAgain
    /\ \E r \in {stepAlgorithm(state, FrontierOrder(state), DigitPairs(10))} :
          /\ state' = r.next
          /\ POWER_10_CACHE' = CacheAfter(r.powers)
    /\ CountCall
    /\ UNCHANGED <<pc, engine, args, other>>
    /\ SqrtVarsUnchanged

\* one iteration of the while loop of runAlgorithmForBase (lines 702-717)
RunAlgorithmForBaseLoop ==
    /\ pc = "run"
    /\ engine = "base"
    /\ runLoopCondition(state)
    /\ state' \in stepAlgorithmBase(state, args.base, Clock(state.startTime))
    /\ CountCall
    /\ UNCHANGED <<pc, engine, args, POWER_10_CACHE, other>>
    /\ SqrtVarsUnchanged

\* the loop exits; elapsedTime is set again on success (lines 719-723)
RunAlgorithmForBaseReturn ==
    /\ pc = "run"
    /\ engine = "base"
    /\ ~runLoopCondition(state)
    /\ state' \in {IF state.success THEN [state EXCEPT !.elapsedTime = now - state.startTime]
                   ELSE state : now \in (state.startTime + state.elapsedTime)..
                                         (state.startTime + MaxElapsed)}
    /\ pc' = "returned"
    /\ UNCHANGED <<engine, args, POWER_10_CACHE, calls, extraCalls, other>>
    /\ SqrtVarsUnchanged

\* a caller calls stepAlgorithmBase(state, base) on the state that
\* runAlgorithmForBase returned
StepAlgorithmBase ==
    /\ pc = "returned"
    /\ engine = "base"
    /\ MayStepAgain
    /\ state' \in stepAlgorithmBase(state, args.base, Clock(state.startTime))
    /\ CountCall
    /\ UNCHANGED <<pc, engine, args, POWER_10_CACHE, other>>
    /\ SqrtVarsUnchanged

Init ==
    /\ engine \in {"pruning", "base", "basic"}
    /\ args \in {[p |-> a, q |-> b, base |-> c] :
                    a \in 1..Max2(MaxFactorBasic, Max2(MaxFactor, MaxFactorBase)),
                    b \in 1..Max2(MaxFactorBasic, Max2(MaxFactor, MaxFactorBase)),
                    c \in MinBase..MaxBase}
    /\ args.p <= args.q
    /\ engine = "pruning" => (args.q <= MaxFactor /\ args.base = 10)
    /\ engine = "base" => args.q <= MaxFactorBase
    /\ engine = "basic" => (args.q <= MaxFactorBasic /\ args.base = 10)
    /\ pc = "init"
    /\ sqrt_n = args.p * args.q
    /\ sqrt_pc = IF engine = "basic" THEN "idle" ELSE "called"
    /\ x = 0
    /\ prev = 0
    /\ state = NoState
    /\ POWER_10_CACHE = EmptyMap
    /\ calls = 0
    /\ extraCalls = 0
    /\ other = NoState

Next ==
    \/ IntegerSqrtEnter
    \/ IntegerSqrtIter
    \/ IntegerSqrtReturn
    \/ InitializeAlgorithm
    \/ InitializeAlgorithmBase
    \/ StepAlgorithm
    \/ RunAlgorithmForBaseLoop
    \/ RunAlgorithmForBaseReturn
    \/ StepAlgorithmBase
    \/ InitializeAlgorithmBasic
    \/ StepAlgorithmBasic

Spec == Init /\ [][Next]_vars

(***************************************************************************)
(* Two independent runs of the pruning engine on the same N.  The first    *)
(* visits the frontier and the digit pairs in the order of the source; the *)
(* second in any order of FrontierOrders and PairOrders.  Both read and    *)
(* fill the one POWER_10_CACHE of the process, which starts empty or       *)
(* filled by earlier runs.                                                 *)
(***************************************************************************)
FrontierOrders(st) == {FrontierOrder(st), Reverse(FrontierOrder(st))}

\* qk in the outer loop, pk in the inner one
DigitPairsSwapped(base) ==
    [i \in 1..(base * base) |-> << (i - 1) % base, (i - 1) \div base >>]

PairOrders == {DigitPairs(10), Reverse(DigitPairs(10)), DigitPairsSwapped(10)}

FilledCache == [e \in 0..MaxCachedExponent |-> Pow(10, e)]

InitializeTwoRuns ==
    /\ pc = "init"
    /\ sqrt_pc = "returned"
    /\ state' = initializeAlgorithm(args.p, args.q, x)
    /\ other' = initializeAlgorithm(args.p, args.q, x)
    /\ pc' = "run"
    /\ UNCHANGED <<engine, args, POWER_10_CACHE, calls, extraCalls>>
    /\ SqrtVarsUnchanged

StepFirstRun ==
    /\ pc = "run"
    /\ ~Terminal(state)
    /\ \E r \in {stepAlgorithm(state, FrontierOrder(state), DigitPairs(10))} :
          /\ state' = r.next
          /\ POWER_10_CACHE' = CacheAfter(r.powers)
    /\ calls' = calls + 1
    /\ UNCHANGED <<pc, engine, args, extraCalls, other>>
    /\ SqrtVarsUnchanged

StepSecondRun ==
    /\ pc = "run"
    /\ ~Terminal(other)
    /\ \E order \in FrontierOrders(other), pairs \in PairOrders :
          \E r \in {stepAlgorithm(other, order, pairs)} :
             /\ other' = r.next
             /\ POWER_10_CACHE' = CacheAfter(r.powers)
    /\ UNCHANGED <<pc, engine, args, calls, extraCalls, state>>
    /\ SqrtVarsUnchanged

DetInit ==
    /\ engine = "pruning"
    /\ args \in {[p |-> a, q |-> b, base |-> 10] : a \in 1..MaxFactorDet, b \in 1..MaxFactorDet}
    /\ args.p <= args.q
    /\ pc = "init"
    /\ sqrt_n = args.p * args.q
    /\ sqrt_pc = "called"
    /\ x = 0
    /\ prev = 0
    /\ state = NoState
    /\ other = NoState
    /\ POWER_10_CACHE \in {EmptyMap, FilledCache}
    /\ calls = 0
    /\ extraCalls = 0

DetNext ==
    \/ IntegerSqrtEnter
    \/ IntegerSqrtIter
    \/ IntegerSqrtReturn
    \/ InitializeTwoRuns
    \/ StepFirstRun
    \/ StepSecondRun

DetSpec == DetInit /\ [][DetNext]_vars

(***************************************************************************)
(* Initialization on arbitrary arguments: p and q of either sign or zero,  *)
(* a base inside or outside MinBase..MaxBase.  initializeAlgorithm has no  *)
(* check of its own; an error reaches the caller when integerSqrt throws   *)
(* (line 377).  initializeAlgorithmBase calls numberToBaseDigits (line     *)
(* 534), which throws on a base outside MinBase..MaxBase, and then         *)
(* integerSqrt (line 535).                                                 *)
(***************************************************************************)
ValidBase(base) == base >= MinBase /\ base <= MaxBase

InitializeAlgorithmThrows ==
    /\ pc = "init"
    /\ engine = "pruning"
    /\ sqrt_pc = "thrown"
    /\ pc' = "thrown"
    /\ UNCHANGED <<engine, args, state, POWER_10_CACHE, calls, extraCalls, other>>
    /\ SqrtVarsUnchanged

NumberToBaseDigitsThrows ==
    /\ pc = "init"
    /\ engine = "base"
    /\ sqrt_pc = "idle"
    /\ ~ValidBase(args.base)
    /\ pc' = "thrown"
    /\ UNCHANGED <<engine, args, state, POWER_10_CACHE, calls, extraCalls, other>>
    /\ SqrtVarsUnchanged

InitializeAlgorithmBaseThrows ==
    /\ pc = "init"
    /\ engine = "base"
    /\ sqrt_pc = "thrown"
    /\ pc' = "thrown"
    /\ UNCHANGED <<engine, args, state, POWER_10_CACHE, calls, extraCalls, other>>
    /\ SqrtVarsUnchanged

InputInit ==
    /\ engine \in {"pruning", "base"}
    /\ args \in {[p |-> a, q |-> b, base |-> c] :
                    a \in (0 - MaxNegative)..MaxInput,
                    b \in (0 - MaxNegative)..MaxInput,
                    c \in (MinBase - 2)..(MaxBase + 1)}
    /\ engine = "pruning" => args.base = 10
    /\ pc = "init"
    /\ sqrt_n = args.p * args.q
    /\ sqrt_pc = IF engine = "base" /\ ~ValidBase(args.base) THEN "idle" ELSE "called"
    /\ x = 0
    /\ prev = 0
    /\ state = NoState
    /\ POWER_10_CACHE = EmptyMap
    /\ calls = 0
    /\ extraCalls = 0
    /\ other = NoState

InputNext ==
    \/ IntegerSqrtEnter
    \/ IntegerSqrtIter
    \/ IntegerSqrtReturn
    \/ InitializeAlgorithm
    \/ InitializeAlgorithmThrows
    \/ NumberToBaseDigitsThrows
    \/ InitializeAlgorithmBase
    \/ InitializeAlgorithmBaseThrows

InputSpec == InputInit /\ [][InputNext]_vars

(***************************************************************************)
(* The feasibility checks on the true branch.  For P <= Q the true branch   *)
(* is the sequence of the partial values P mod 10^k, Q mod 10^k, k = 1..n: *)
(* the candidate workFunction hands to globalFeasible at position k when   *)
(* it extends the true branch.  sqrtN is the value integerSqrt returned to *)
(* initializeAlgorithm.                                                    *)
(***************************************************************************)
\* the true branch before its first digit (lines 374-377: N, N_digits, sqrtN)
TrueBranchEnter ==
    /\ pc = "init"
    /\ engine \in {"globalFeasible", "feasibleBase"}
    /\ sqrt_pc = "returned"
    /\ pc' = "branch"
    /\ state' = [N |-> args.p * args.q,
                 N_digits |-> DecimalDigitsLSD(args.p * args.q),
                 sqrtN |-> x,
                 k |-> 0, P_value |-> 0, Q_value |-> 0, verdict |-> 0]
    /\ UNCHANGED <<engine, args, POWER_10_CACHE, calls, extraCalls, other>>
    /\ SqrtVarsUnchanged

\* the values of the true branch with k digits
TrueBranchAt(st, k) ==
    [st EXCEPT !.k = k,
               !.P_value = args.p % Pow(10, k),
               !.Q_value = args.q % Pow(10, k)]

\* line 322: globalFeasible(newState, new_P_value, new_Q_value, N,
\* digitsProcessed, totalDigits, sqrtN) on the true branch extended by one digit
GlobalFeasibleOnTrueBranch ==
    /\ pc = "branch"
    /\ engine = "globalFeasible"
    /\ state.k < Len(state.N_digits)
    /\ \E b \in {TrueBranchAt(state, state.k + 1)} :
          /\ state' = [b EXCEPT !.verdict =
                          globalFeasible(b, b.P_value, b.Q_value, b.N, b.k,
                                         Len(b.N_digits), b.sqrtN)]
          /\ POWER_10_CACHE' = CacheAfter(globalFeasiblePowers(
                                   b.P_value, b.Q_value, b.N, b.k,
                                   Len(b.N_digits), b.sqrtN))
    /\ UNCHANGED <<pc, engine, args, calls, extraCalls, other>>
    /\ SqrtVarsUnchanged

\* src/common.js lines 291-329: the checks of workFunctionBase, base 10, on the
\* true branch extended by one digit
FeasibleBaseOnTrueBranch ==
    /\ pc = "branch"
    /\ engine = "feasibleBase"
    /\ state.k < Len(state.N_digits)
    /\ \E b \in {TrueBranchAt(state, state.k + 1)} :
          state' = [b EXCEPT !.verdict =
                       feasibleBase(b.P_value, b.Q_value, b.N, b.sqrtN, b.k,
                                    Len(b.N_digits), args.base)]
    /\ UNCHANGED <<pc, engine, args, POWER_10_CACHE, calls, extraCalls, other>>
    /\ SqrtVarsUnchanged

BranchInit ==
    /\ engine \in {"globalFeasible", "feasibleBase"}
    /\ args \in {[p |-> a, q |-> b, base |-> 10] :
                    a \in 2..MaxBranchFactor, b \in 2..MaxBranchFactor}
    /\ args.p <= args.q
    /\ pc = "init"
    /\ sqrt_n = args.p * args.q
    /\ sqrt_pc = "called"
    /\ x = 0
    /\ prev = 0
    /\ state = NoState
    /\ POWER_10_CACHE = EmptyMap
    /\ calls = 0
    /\ extraCalls = 0
    /\ other = NoState

BranchNext ==
    \/ IntegerSqrtEnter
    \/ IntegerSqrtIter
    \/ IntegerSqrtReturn
    \/ TrueBranchEnter
    \/ GlobalFeasibleOnTrueBranch
    \/ FeasibleBaseOnTrueBranch

BranchSpec == BranchInit /\ [][BranchNext]_vars


(***************************************************************************)
(* The basic work function along the digit path of the factors: the node   *)
(* of the frontier that holds the low digits of P and Q, extended by the   *)
(* child the basic workFunction returns for the next digits of P and Q.    *)
(***************************************************************************)
\* the k-th decimal digit of n, k = 1 for the least significant
DigitAt(n, k) == (n \div Pow(10, k - 1)) % 10

\* the basic initializeAlgorithm(p, q) (lines 669-697): N_big, N_digits and the
\* empty node
DigitPathEnter ==
    /\ pc = "init"
    /\ engine = "basicPath"
    /\ pc' = "path"
    /\ state' = [N_big |-> args.p * args.q,
                 N_digits |-> DecimalDigitsLSD(args.p * args.q),
                 step |-> 0,
                 node |-> EmptyNode(DecimalDigitsLSD(args.p * args.q)),
                 survived |-> TRUE]
    /\ UNCHANGED <<engine, args, POWER_10_CACHE, calls, extraCalls, other>>
    /\ SqrtVarsUnchanged

\* the children that carry the digits of P and Q at position k
DigitPathChildren(children, p, q, k) ==
    LET OnPath(c) == c.pk = DigitAt(p, k) /\ c.qk = DigitAt(q, k)
    IN  SelectSeq(children, OnPath)

\* lines 712-724 for the node of the digit path: the basic workFunction is
\* called on it for position step + 1
DigitPathStep ==
    /\ pc = "path"
    /\ state.survived
    /\ state.step < Len(state.N_digits)
    /\ \E children \in {workFunctionBasic(
                            branchInputBasic(state, state.node, state.step + 1))} :
          /\ \E cs \in {DigitPathChildren(children, args.p, args.q, state.step + 1)} :
                state' = IF Len(cs) = 0
                         THEN [state EXCEPT !.survived = FALSE]
                         ELSE [state EXCEPT !.step = state.step + 1, !.node = cs[1]]
          /\ POWER_10_CACHE' =
                CacheAfter(IF Len(children) > 0 THEN {state.step} ELSE {})
    /\ UNCHANGED <<pc, engine, args, calls, extraCalls, other>>
    /\ SqrtVarsUnchanged

PathInit ==
    /\ engine = "basicPath"
    /\ args \in {[p |-> a, q |-> b, base |-> 10] :
                    a \in 2..MaxPathFactor, b \in 2..MaxPathFactor}
    /\ args.p <= args.q
    /\ pc = "init"
    /\ sqrt_n = args.p * args.q
    /\ sqrt_pc = "idle"
    /\ x = 0
    /\ prev = 0
    /\ state = NoState
    /\ POWER_10_CACHE = EmptyMap
    /\ calls = 0
    /\ extraCalls = 0
    /\ other = NoState

PathNext == DigitPathEnter \/ DigitPathStep

PathSpec == PathInit /\ [][PathNext]_vars


(***************************************************************************)
(* The pruning engine and the base-generalized engine at base 10, side by  *)
(* side on the same p and q: state is the run of the pruning engine, other *)
(* the run of the base engine.  Both initializations call integerSqrt on   *)
(* the same N; the call is modelled once.                                  *)
(***************************************************************************)
InitializeSideBySide ==
    /\ pc = "init"
    /\ engine = "sideBySide"
    /\ sqrt_pc = "returned"
    /\ state' = initializeAlgorithm(args.p, args.q, x)
    /\ other' = initializeAlgorithmBase(args.p, args.q, 10, x, 0)
    /\ pc' = "run"
    /\ UNCHANGED <<engine, args, POWER_10_CACHE, calls, extraCalls>>
    /\ SqrtVarsUnchanged

\* stepAlgorithm(state) of the pruning engine
StepPruningRun ==
    /\ pc = "run"
    /\ engine = "sideBySide"
    /\ ~Terminal(state)
    /\ \E r \in {stepAlgorithm(state, FrontierOrder(state), DigitPairs(10))} :
          /\ state' = r.next
          /\ POWER_10_CACHE' = CacheAfter(r.powers)
    /\ calls' = calls + 1
    /\ UNCHANGED <<pc, engine, args, extraCalls, other>>
    /\ SqrtVarsUnchanged

\* stepAlgorithmBase(other, 10) of the base engine
StepBaseRun ==
    /\ pc = "run"
    /\ engine = "sideBySide"
    /\ ~Terminal(other)
    /\ other' \in stepAlgorithmBase(other, 10, Clock(other.startTime))
    /\ UNCHANGED <<pc, engine, args, POWER_10_CACHE, calls, extraCalls, state>>
    /\ SqrtVarsUnchanged

SideInit ==
    /\ engine = "sideBySide"
    /\ args \in {[p |-> a, q |-> b, base |-> 10] :
                    a \in 1..MaxFactorSide, b \in 1..MaxFactorSide}
    /\ args.p <= args.q
    /\ pc = "init"
    /\ sqrt_n = args.p * args.q
    /\ sqrt_pc = "called"
    /\ x = 0
    /\ prev = 0
    /\ state = NoState
    /\ other = NoState
    /\ POWER_10_CACHE = EmptyMap
    /\ calls = 0
    /\ extraCalls = 0

SideNext ==
    \/ IntegerSqrtEnter
    \/ IntegerSqrtIter
    \/ IntegerSqrtReturn
    \/ InitializeSideBySide
    \/ StepPruningRun
    \/ StepBaseRun

SideSpec == SideInit /\ [][SideNext]_vars


(***************************************************************************)
(* Vocabulary of the properties.                                           *)
(***************************************************************************)
IsPrime(n) == n > 1 /\ \A d \in 2..(n - 1) : n % d # 0

\* the number a decimal string denotes
RECURSIVE ParseDecimal(_)
ParseDecimal(str) ==
    IF Len(str) = 0 THEN 0
    ELSE 10 * ParseDecimal(SubSeq(str, 1, Len(str) - 1)) + CharToNumber(str[Len(str)])

\* an engine state exists: initialization has returned
Running == pc \in {"run", "returned"}

Radix == IF engine = "base" THEN args.base ELSE 10

\* the nodes of a frontier as a set, without the position of the parent
NodeSet(frontier) ==
    {[k |-> frontier[i].k,
      p_history |-> frontier[i].p_history,
      q_history |-> frontier[i].q_history,
      P_value |-> frontier[i].P_value,
      Q_value |-> frontier[i].Q_value,
      carry_in |-> frontier[i].carry_in] : i \in 1..Len(frontier)}

\* the largest completion of a partial value with k of n digits
MaxCompletion(value, k, n) == value + (Pow(10, n - k) - 1) * Pow(10, k)

\* some frontier node carries the low `step` digits of the factors of the run
TruePathInFrontier ==
    \E i \in 1..Len(state.frontier) :
        /\ state.frontier[i].P_value = args.p % Pow(Radix, state.step)
        /\ state.frontier[i].Q_value = args.q % Pow(Radix, state.step)

FoundFactors(P, Q) ==
    /\ state.success
    /\ state.foundP = BigIntToString(P)
    /\ state.foundQ = BigIntToString(Q)

(***************************************************************************)
(* Properties of the pruning engine and of the base engine (Spec).         *)
(***************************************************************************)

\* C1: soundness of the base-10 pruning engine: for every 1 < P <= Q a run on
\* N = P * Q that has stopped has stopped in success with foundP = P and
\* foundQ = Q, and until then the branch of the true factors is in the
\* frontier: no pruning check has removed it.
C1_PruningSoundness ==
    (engine = "pruning" /\ pc = "run" /\ args.p > 1) =>
        /\ Terminal(state) => FoundFactors(args.p, args.q)
        /\ ~Terminal(state) => TruePathInFrontier

\* C2: no false positives, in both engines: a state with success = true has
\* foundP * foundQ = N with both factors above 1, its step is the final digit
\* position, and the branch recorded as the solution in the frontier has
\* carry 0 and carries the reported factors.
C2_NoFalsePositives ==
    (Running /\ state.success) =>
        /\ ParseDecimal(state.foundP) * ParseDecimal(state.foundQ) = args.p * args.q
        /\ state.N_big = args.p * args.q
        /\ ParseDecimal(state.foundP) > 1
        /\ ParseDecimal(state.foundQ) > 1
        /\ state.step = Len(state.N_digits)
        /\ Len(state.history) = state.step
        /\ \E i \in 1..Len(state.frontier) :
              /\ state.history[state.step].branches[i].isSolution
              /\ state.frontier[i].carry_in = 0
              /\ BigIntToString(state.frontier[i].P_value) = state.foundP
              /\ BigIntToString(state.frontier[i].Q_value) = state.foundQ

C2_Witness ==
    /\ pc = "run"
    /\ engine = "pruning"
    /\ args.p = 3
    /\ args.q = 7
    /\ state.success
    /\ state.foundP = <<"3">>
    /\ state.foundQ = <<"7">>

\* C3: exhaustion on a prime N (13, say): no state of the run has success =
\* true, the run has stopped once stepAlgorithm has been called N_digits.length
\* times, and a run that has stopped has done = true.
C3_ExhaustionOnPrimes ==
    (Running /\ IsPrime(args.p * args.q)) =>
        /\ ~state.success
        /\ calls >= Len(state.N_digits) => state.done
        /\ Terminal(state) => state.done

C3_Witness ==
    /\ pc = "run"
    /\ engine = "pruning"
    /\ args.p * args.q = 13
    /\ state.done
    /\ ~state.success

\* C4: soundness of the base engine: for every base 2..36 and primes P <= Q,
\* from the initial state on, the frontier after each step holds the branch of
\* the true factors, the run is never exhausted, and a run that has stopped
\* reports foundP = P and foundQ = Q.
C4_BaseSoundness ==
    (engine = "base" /\ Running /\ IsPrime(args.p) /\ IsPrime(args.q)) =>
        /\ TruePathInFrontier
        /\ state.done => state.success
        /\ Terminal(state) => FoundFactors(args.p, args.q)
        /\ state.step = 0 =>
              /\ state.N_digits = numberToBaseDigits(args.p * args.q, args.base)
              /\ state.sqrtN * state.sqrtN <= args.p * args.q
              /\ state.frontier = <<EmptyNode(state.N_digits)>>

C4_Witness ==
    /\ pc = "returned"
    /\ engine = "base"
    /\ args = [p |-> 3, q |-> 7, base |-> 2]
    /\ state.success
    /\ state.foundP = <<"3">>
    /\ state.foundQ = <<"7">>

\* C6: termination: a run that has not stopped has made exactly `step` calls
\* and step < N_digits.length, so that N_digits.length calls at most lead to a
\* state with done or success; every call that does not stop the run raises
\* step by exactly 1; and the loop of runAlgorithmForBase exits: every
\* iteration raises step, which stays below N_digits.length, or makes the loop
\* condition false.
C6_Termination ==
    /\ [](Running =>
            /\ ~Terminal(state) => (calls = state.step /\ state.step < Len(state.N_digits))
            /\ calls >= Len(state.N_digits) => Terminal(state))
    /\ [][(Running /\ calls' = calls + 1 /\ ~Terminal(state'))
             => state'.step = state.step + 1]_vars
    /\ [][(engine = "base" /\ pc = "run" /\ pc' = "run")
             => \/ ~runLoopCondition(state')
                \/ /\ state'.step = state.step + 1
                   /\ state'.step < Len(state'.N_digits)]_vars

C6_Witness ==
    /\ pc = "returned"
    /\ engine = "base"
    /\ Len(state.N_digits) >= 4
    /\ calls = Len(state.N_digits)
    /\ state.step = calls

\* C7: terminal states stay terminal: stepping a solved state leaves success,
\* foundP, foundQ and solutionPath as they are; stepping an exhausted state
\* leaves it done and not solved, and neither step nor frontier moves.
C7_TerminalStaysTerminal ==
    [][(Running /\ Terminal(state)) =>
          /\ state.success =>
                /\ state'.success
                /\ state'.foundP = state.foundP
                /\ state'.foundQ = state.foundQ
                /\ state'.solutionPath = state.solutionPath
          /\ (state.done /\ ~state.success) =>
                /\ state'.done
                /\ ~state'.success
                /\ state'.step = state.step
                /\ state'.frontier = state.frontier]_vars

C7_Witness ==
    /\ Running
    /\ extraCalls = MaxExtraCalls
    /\ state.success
    /\ state.done
    /\ Len(state.solutionPath) = Len(state.N_digits)

\* C10 as stated: for every P > 1 a run of the pruning engine on N = P * P
\* that has stopped reports foundP = foundQ = P, and until then the branch with
\* P_value = Q_value of the true factor is in the frontier.
C10_EqualFactorsAccepted ==
    (engine = "pruning" /\ pc = "run" /\ args.p > 1 /\ args.p = args.q) =>
        /\ Terminal(state) => FoundFactors(args.p, args.p)
        /\ ~Terminal(state) => TruePathInFrontier

\* C10 amended: for every prime P a run of the pruning engine on N = P * P
\* that has stopped reports foundP = foundQ = P, and until then the branch with
\* P_value = Q_value of the true factor is in the frontier: the symmetry check
\* has not rejected it.
C10_EqualPrimeFactorsAccepted ==
    (engine = "pruning" /\ pc = "run" /\ IsPrime(args.p) /\ args.p = args.q) =>
        /\ Terminal(state) => FoundFactors(args.p, args.p)
        /\ ~Terminal(state) => TruePathInFrontier

C10_Witness ==
    /\ pc = "run"
    /\ engine = "pruning"
    /\ args.p = 11
    /\ args.q = 11
    /\ state.success
    /\ state.foundP = <<"1", "1">>
    /\ state.foundQ = <<"1", "1">>

\* the carry of the parent of the i-th frontier node, as the history holds it
ParentCarry(i) ==
    IF state.step <= 1 THEN 0
    ELSE state.history[state.step - 1].branches[state.frontier[i].parentIdx + 1].carry

\* C11: carry bound: every node of every reachable frontier of the pruning
\* engine (base 10) and of the base engine (base b), produced at position k
\* from a parent with carry carryIn, has
\* 0 <= carry <= floor(((base-1)^2 * k + carryIn) / base).
C11_CarryBound ==
    (Running /\ engine \in {"pruning", "base"} /\ state.step >= 1) =>
        \A i \in 1..Len(state.frontier) :
            /\ state.frontier[i].k = state.step + 1
            /\ state.frontier[i].carry_in >= 0
            /\ state.frontier[i].carry_in <=
                  ((Radix - 1) * (Radix - 1) * state.step + ParentCarry(i)) \div Radix

C11_Witness ==
    /\ Running
    /\ engine = "base"
    /\ state.step >= 2
    /\ \E i \in 1..Len(state.frontier) :
          /\ state.frontier[i].carry_in >= 1
          /\ ParentCarry(i) >= 1

\* the frontier nodes of a solved state that pass the test of the solution
\* loop, and the one the history marks as the solution
ExactSurvivors ==
    {j \in 1..Len(state.frontier) :
        state.frontier[j].carry_in = 0 /\ checkSolution(state.frontier[j], args.p * args.q)}

ReportedSurvivors ==
    {i \in 1..Len(state.frontier) : state.history[state.step].branches[i].isSolution}

\* (parentIdx, pk, qk) of node a is at most that of node b, lexicographically
GeneratedBefore(a, b) ==
    \/ a.parentIdx < b.parentIdx
    \/ a.parentIdx = b.parentIdx /\ a.pk < b.pk
    \/ a.parentIdx = b.parentIdx /\ a.pk = b.pk /\ a.qk <= b.qk

\* C12: tie-break: in a solved state exactly one survivor is reported, it
\* passes the exact-termination test, it is the reported foundP, foundQ, and
\* every survivor that passes the test has a (parent index, pk, qk) that is
\* lexicographically at least that of the reported one.
C12_TieBreak ==
    (Running /\ state.success) =>
        /\ Cardinality(ReportedSurvivors) = 1
        /\ ReportedSurvivors \subseteq ExactSurvivors
        /\ \A i \in ReportedSurvivors :
              /\ state.foundP = BigIntToString(state.frontier[i].P_value)
              /\ state.foundQ = BigIntToString(state.frontier[i].Q_value)
              /\ \A j \in ExactSurvivors :
                    /\ i <= j
                    /\ GeneratedBefore(state.frontier[i], state.frontier[j])

C12_Witness ==
    /\ pc = "run"
    /\ engine = "pruning"
    /\ state.success
    /\ args.p * args.q = 16
    /\ Cardinality(ExactSurvivors) >= 2
    /\ state.foundP = <<"2">>
    /\ state.foundQ = <<"8">>

\* the factors a solution path replays to: the sums of pk * base^(k-1) and of
\* qk * base^(k-1) over its first n entries
RECURSIVE ReplayP(_, _)
ReplayP(path, n) ==
    IF n = 0 THEN 0 ELSE path[n].pk * Pow(Radix, path[n].k - 1) + ReplayP(path, n - 1)

RECURSIVE ReplayQ(_, _)
ReplayQ(path, n) ==
    IF n = 0 THEN 0 ELSE path[n].qk * Pow(Radix, path[n].k - 1) + ReplayQ(path, n - 1)

\* C13: solution path replay: in every solved state solutionPath has exactly
\* totalDigits entries, their k fields are 1, 2, ..., totalDigits in order, and
\* the sum of pk * base^(k-1) over the path is foundP, that of qk * base^(k-1)
\* is foundQ.
C13_SolutionPathReplay ==
    (Running /\ state.success) =>
        /\ Len(state.solutionPath) = Len(state.N_digits)
        /\ \A i \in 1..Len(state.solutionPath) : state.solutionPath[i].k = i
        /\ ReplayP(state.solutionPath, Len(state.solutionPath)) = ParseDecimal(state.foundP)
        /\ ReplayQ(state.solutionPath, Len(state.solutionPath)) = ParseDecimal(state.foundQ)

C13_Witness ==
    /\ pc = "returned"
    /\ engine = "base"
    /\ args = [p |-> 3, q |-> 7, base |-> 3]
    /\ state.success
    /\ Len(state.solutionPath) = 3
    /\ ReplayP(state.solutionPath, 3) = 3
    /\ ReplayQ(state.solutionPath, 3) = 7

\* the children the basic workFunction returns for the node at the next
\* position of a running basic engine
BasicChildren(node) ==
    workFunctionBasic(branchInputBasic(state, node, state.step + 1))

BasicExpanding ==
    /\ engine = "basic"
    /\ pc = "run"
    /\ state.step < Len(state.N_digits)

\* the bound of the README ("The 50-State Bound")
AdmissiblePairsBound == 50

\* C15 as stated: for every N, every position k and every node of a reachable
\* frontier, the basic work function returns at most 50 children.  Violated by
\* N = 100 = 10 * 10: the node with p1 = q1 = 0 satisfies the recurrence at
\* k = 2 for all 100 digit pairs.
C15_FiftyStateBound ==
    BasicExpanding =>
        \A i \in 1..Len(state.frontier) :
            Len(BasicChildren(state.frontier[i])) <= AdmissiblePairsBound

\* C15 amended: for every N that is not a multiple of 100, every position k and
\* every node of a reachable frontier, the basic work function returns at most
\* 50 children.
C15_FiftyStateBoundOffHundreds ==
    (BasicExpanding /\ state.N % 100 # 0) =>
        \A i \in 1..Len(state.frontier) :
            Len(BasicChildren(state.frontier[i])) <= AdmissiblePairsBound

\* the bound is met: a node of N = 150 past the first digit with exactly 50
\* children
C15_Witness ==
    /\ BasicExpanding
    /\ state.N % 100 # 0
    /\ state.step >= 1
    /\ \E i \in 1..Len(state.frontier) :
          Len(BasicChildren(state.frontier[i])) = AdmissiblePairsBound

\* the children the engine's work function returns for a node at position k
ChildrenAt(node, k) ==
    IF engine = "pruning"
    THEN workFunction(branchInput(state, node, k), DigitPairs(10)).states
    ELSE IF engine = "base"
    THEN workFunctionBase(branchInput(state, node, k), args.base).states
    ELSE workFunctionBasic(branchInputBasic(state, node, k))

\* C19: terminal-carry anchor: every child the work function (workFunction,
\* basic workFunction, workFunctionBase) returns for the final position
\* k = totalDigits has carry_in 0: so have the children of every node of a
\* frontier about to be extended at the final position, and the nodes of the
\* final frontier a successful step stores.
C19_TerminalCarryAnchor ==
    Running =>
        /\ (state.step = Len(state.N_digits) - 1 /\ ~Terminal(state)) =>
              \A i \in 1..Len(state.frontier) :
                  LET children == ChildrenAt(state.frontier[i], Len(state.N_digits))
                  IN  \A j \in 1..Len(children) : children[j].carry_in = 0
        /\ (state.step = Len(state.N_digits)) =>
              \A i \in 1..Len(state.frontier) : state.frontier[i].carry_in = 0

\* a basic run stored a final frontier of several nodes at the third position,
\* whose parents carried a non-zero carry into it
C19_Witness ==
    /\ engine = "basic"
    /\ pc = "run"
    /\ state.step = Len(state.N_digits)
    /\ state.step = 3
    /\ Len(state.frontier) >= 2
    /\ \E i \in 1..Len(state.frontier) :
          state.history[2].branches[state.frontier[i].parentIdx + 1].carry > 0

\* C20: symmetry invariant of the frontier: after any number of stepAlgorithm
\* calls of the base-10 pruning engine, every node of the frontier other than
\* the initial empty node has P_value <= Q_value and P_value * Q_value <= N.
C20_FrontierSymmetry ==
    (engine = "pruning" /\ pc = "run" /\ state.step >= 1) =>
        \A i \in 1..Len(state.frontier) :
            /\ state.frontier[i].P_value <= state.frontier[i].Q_value
            /\ state.frontier[i].P_value * state.frontier[i].Q_value <= state.N

\* a frontier of several nodes after a step, one of them with equal values and
\* one with a product below N
C20_Witness ==
    /\ engine = "pruning"
    /\ pc = "run"
    /\ state.step >= 1
    /\ calls >= 1
    /\ Len(state.frontier) >= 2
    /\ \E i \in 1..Len(state.frontier) :
          state.frontier[i].P_value = state.frontier[i].Q_value
    /\ \E i \in 1..Len(state.frontier) :
          state.frontier[i].P_value * state.frontier[i].Q_value < state.N

\* the value of the digits of a history, least significant first
RECURSIVE HistoryValue(_, _)
HistoryValue(history, base) ==
    IF Len(history) = 0 THEN 0
    ELSE history[1] + base * HistoryValue(Tail(history), base)

\* C21: node consistency: in every running or solved state every node of the
\* frontier has k = step + 1 with 1 <= k <= totalDigits + 1, histories of
\* length k - 1 with digits in 0..base-1, and P_value, Q_value equal to the
\* values of the digits of p_history, q_history; the nodes of one frontier
\* share the same k.
C21_NodeConsistency ==
    Running =>
        \A i \in 1..Len(state.frontier) :
            LET node == state.frontier[i]
            IN  /\ node.k = state.step + 1
                /\ node.k >= 1
                /\ node.k <= Len(state.N_digits) + 1
                /\ Len(node.p_history) = node.k - 1
                /\ Len(node.q_history) = node.k - 1
                /\ \A j \in 1..(node.k - 1) :
                      /\ node.p_history[j] \in 0..(Radix - 1)
                      /\ node.q_history[j] \in 0..(Radix - 1)
                /\ node.P_value = HistoryValue(node.p_history, Radix)
                /\ node.Q_value = HistoryValue(node.q_history, Radix)
                /\ \A j \in 1..Len(state.frontier) : state.frontier[j].k = node.k

\* a frontier of the base engine in a base other than 10 holding a node of
\* three digits whose last digits are not zero
C21_Witness ==
    /\ Running
    /\ engine = "base"
    /\ args.base # 10
    /\ state.step = 3
    /\ \E i \in 1..Len(state.frontier) :
          /\ state.frontier[i].p_history[3] > 0
          /\ state.frontier[i].q_history[3] > 0

\* the convolution sum of position k over histories already extended by the
\* digits of position k
ConvolutionSum(p_digits, q_digits, k) ==
    SumTo([i \in 1..k |-> p_digits[i] * q_digits[k - i + 1]], k)

\* T of position k for a node extended by (pk, qk)
RecurrenceTotal(node, k, pk, qk) ==
    ConvolutionSum(Append(node.p_history, pk), Append(node.q_history, qk), k)
        + node.carry_in

\* the reference filter: T >= n_k, T - n_k divisible by the base, and T = n_k
\* at the final position
RecurrenceAdmits(node, k, pk, qk) ==
    LET T == RecurrenceTotal(node, k, pk, qk)
    IN  /\ T >= state.N_digits[k]
        /\ (T - state.N_digits[k]) % Radix = 0
        /\ (k = Len(state.N_digits)) => (T = state.N_digits[k])

\* the candidate the engine's work function computes for (pk, qk) on a node
CandidateAt(node, k, pk, qk) ==
    IF engine = "pruning"
    THEN workCandidate(branchInput(state, node, k),
                       baseSumFrom(2, k, node.p_history, node.q_history), pk, qk)
    ELSE workCandidateBase(branchInput(state, node, k), args.base,
                           baseSumBaseFrom(2, k, node.p_history, node.q_history), pk, qk)

\* the interior sum the engine caches for position k of a node
CachedInteriorSum(node, k) ==
    IF engine = "pruning"
    THEN baseSumFrom(2, k, node.p_history, node.q_history)
    ELSE baseSumBaseFrom(2, k, node.p_history, node.q_history)

Expanding ==
    /\ pc = "run"
    /\ engine \in {"pruning", "base"}
    /\ ~Terminal(state)
    /\ state.step < Len(state.N_digits)

\* C22: the recurrence filter equals its reference: for every node of a frontier
\* about to be extended at position k, the pairs (pk, qk) that workFunction
\* (workFunctionBase) passes on to the pruning checks are exactly those the
\* reference admits, each child carries (T - n_k) / base, the cached interior
\* sum plus p_1*qk + pk*q_1 is the full convolution sum for k >= 2, and no pair
\* that passes the divisibility test is rejected by the carry envelope.
C22_RecurrenceFilter ==
    Expanding =>
        \A i \in 1..Len(state.frontier) :
            \A pk \in 0..(Radix - 1), qk \in 0..(Radix - 1) :
                LET node == state.frontier[i]
                    k == state.step + 1
                    c == CandidateAt(node, k, pk, qk)
                    T == RecurrenceTotal(node, k, pk, qk)
                IN  /\ (c.kind # "skip") <=> RecurrenceAdmits(node, k, pk, qk)
                    /\ (c.kind = "child") =>
                          c.node.carry_in = (T - state.N_digits[k]) \div Radix
                    /\ (k >= 2) =>
                          CachedInteriorSum(node, k) + node.p_history[1] * qk
                              + pk * node.q_history[1] + node.carry_in = T

\* a node at the third position with a non-zero interior term, a pair of which
\* is passed on with a carry
C22_Witness ==
    /\ Expanding
    /\ state.step = 2
    /\ \E i \in 1..Len(state.frontier) :
          /\ state.frontier[i].p_history[2] * state.frontier[i].q_history[2] > 0
          /\ \E pk \in 0..(Radix - 1), qk \in 0..(Radix - 1) :
                /\ CandidateAt(state.frontier[i], 3, pk, qk).kind # "skip"
                /\ RecurrenceTotal(state.frontier[i], 3, pk, qk) > state.N_digits[3]

\* the verdicts globalFeasible returns for the candidates of the nodes of a
\* frontier of the pruning engine about to be extended
PrunedVerdicts ==
    {c.verdict : c \in {cc \in {CandidateAt(state.frontier[i], state.step + 1, pk, qk) :
                                   i \in 1..Len(state.frontier), pk \in 0..9, qk \in 0..9} :
                            cc.kind = "pruned"}}

\* C24: with sqrtN = floor(sqrt(N)) the square-root check of globalFeasible is
\* unreachable: no candidate of the pruning engine is pruned with verdict 4 and
\* pruningStats[4] stays 0.
C24_SqrtCheckUnreachable ==
    (Running /\ engine = "pruning") =>
        /\ Stat(state.pruningStats, 4) = 0
        /\ (Expanding => 4 \notin PrunedVerdicts)

\* the check is met at its boundary: a frontier node with P_value = sqrtN is
\* kept before the last position, while other candidates were pruned
C24_Witness ==
    /\ Running
    /\ engine = "pruning"
    /\ state.step >= 1
    /\ state.step < Len(state.N_digits)
    /\ state.nodesPruned > 0
    /\ \E i \in 1..Len(state.frontier) : state.frontier[i].P_value = state.sqrtN

\* the value globalFeasible returns for the node extended by (pk, qk), as
\* workFunction calls it (line 322)
FeasibleResultAt(node, k, pk, qk) ==
    globalFeasible([k |-> k,
                    p_history |-> Append(node.p_history, pk),
                    q_history |-> Append(node.q_history, qk)],
                   node.P_value + pk * Pow(10, k - 1),
                   node.Q_value + qk * Pow(10, k - 1),
                   state.N_big, k, Len(state.N_digits), state.sqrtN)

\* C25: the upper-tail check of globalFeasible is unreachable and the values
\* globalFeasible returns are 0, true, 1, 2, 3, 5 and 6 only: pruningStats
\* counts nothing under 4, 7, 8 or 9; for every candidate of a reachable
\* frontier that reaches globalFeasible the result is one of these values, true
\* and 2 occur only when no digits remain, 0 only when digits remain, and Pmax
\* is positive whenever digits remain.
C25_UpperTailUnreachable ==
    (Running /\ engine = "pruning") =>
        /\ \A v \in {4, 7, 8, 9} : Stat(state.pruningStats, v) = 0
        /\ Expanding =>
              \A i \in 1..Len(state.frontier) :
                  \A pk \in 0..9, qk \in 0..9 :
                      LET node == state.frontier[i]
                          k == state.step + 1
                          n == Len(state.N_digits)
                          r == FeasibleResultAt(node, k, pk, qk)
                      IN  CandidateAt(node, k, pk, qk).kind # "skip" =>
                              /\ r \in {0, ExactMatch, 1, 2, 3, 5, 6}
                              /\ r \in {ExactMatch, 2} => k = n
                              /\ r = 0 => k < n
                              /\ k < n =>
                                    MaxCompletion(node.P_value + pk * Pow(10, k - 1), k, n) > 0

\* a run in which globalFeasible has returned 1, 2, 3 and 6 and the exact
\* match
C25_Witness ==
    /\ Running
    /\ engine = "pruning"
    /\ state.success
    /\ \A v \in {1, 2, 3, 6} : Stat(state.pruningStats, v) > 0

\* C26: low-digit agreement: in every engine, every node of the frontier after
\* j completed steps has P_value * Q_value congruent to N modulo base^j.
C26_LowDigitAgreement ==
    Running =>
        \A i \in 1..Len(state.frontier) :
            (state.frontier[i].P_value * state.frontier[i].Q_value)
                    % Pow(Radix, state.step)
                = (args.p * args.q) % Pow(Radix, state.step)

\* a frontier after two steps, in a base other than 10, with a node whose
\* product is not N
C26_Witness ==
    /\ Running
    /\ engine = "base"
    /\ args.base # 10
    /\ state.step = 2
    /\ Len(state.N_digits) > 2
    /\ \E i \in 1..Len(state.frontier) :
          /\ state.frontier[i].P_value * state.frontier[i].Q_value # args.p * args.q
          /\ state.frontier[i].P_value > 1

\* C27: in the pruning engine and in the base engine a non-empty survivor set
\* at the final position always gives success: a state that is done without
\* success was returned for an empty survivor set (activeBranches = 0), never
\* by the branch that stores a non-empty one, and in a solved state the first
\* node of the final frontier passes carry_in = 0 and checkSolution.
C27_FinalSurvivorsSolve ==
    (Running /\ engine \in {"pruning", "base"}) =>
        /\ (state.done /\ ~state.success) => state.activeBranches = 0
        /\ state.success =>
              /\ state.step = Len(state.N_digits)
              /\ 1 \in SolutionIndices(state.frontier, state.N_big)

\* a solved state with several final survivors
C27_Witness ==
    /\ Running
    /\ engine \in {"pruning", "base"}
    /\ state.success
    /\ Len(state.frontier) >= 2
    /\ Len(state.N_digits) >= 2

\* C28: every solved state of the base engine reports ordered factors,
\* foundP <= foundQ: every node of the final frontier has
\* P_value <= floor(sqrt(N)) and P_value * Q_value = N.
C28_BaseOrderedFactors ==
    (Running /\ engine = "base" /\ state.success) =>
        /\ ParseDecimal(state.foundP) <= ParseDecimal(state.foundQ)
        /\ \A i \in 1..Len(state.frontier) :
              /\ state.frontier[i].P_value <= state.sqrtN
              /\ state.frontier[i].P_value * state.frontier[i].Q_value = state.N_big
              /\ state.frontier[i].P_value <= state.frontier[i].Q_value

\* a solved state of the base engine with distinct factors, the smaller with
\* low digits above those of the larger
C28_Witness ==
    /\ Running
    /\ engine = "base"
    /\ state.success
    /\ ParseDecimal(state.foundP) < ParseDecimal(state.foundQ)
    /\ ParseDecimal(state.foundP) % args.base > ParseDecimal(state.foundQ) % args.base

\* C30: re-stepping a terminal state leaves the instrumentation untouched:
\* stepAlgorithm (stepAlgorithmBase) applied to a state that is done or solved
\* returns a state with the same nodesVisited, nodesPruned, pruningStats,
\* maxFrontierWidth, step and frontier.  Violated by a state exhausted before
\* the final position: the step runs the work function on the frontier again
\* and adds to the counters.
C30_TerminalStepIdempotent ==
    [][(Running /\ engine \in {"pruning", "base"} /\ Terminal(state)) =>
          /\ state'.nodesVisited = state.nodesVisited
          /\ state'.nodesPruned = state.nodesPruned
          /\ engine = "pruning" => state'.pruningStats = state.pruningStats
          /\ state'.maxFrontierWidth = state.maxFrontierWidth
          /\ state'.step = state.step
          /\ state'.frontier = state.frontier]_vars

(***************************************************************************)
(* Properties of initialization on arbitrary arguments (InputSpec).        *)
(***************************************************************************)

\* C14: invalid input is reported immediately: when N = p * q is not positive
\* or the base is below 2, initialization returns no running state (and, once
\* it has ended, it has ended by raising an error).
C14_InvalidInputReported ==
    (args.p * args.q <= 0 \/ args.base < 2) => pc \in {"init", "thrown"}

(***************************************************************************)
(* Properties of globalFeasible on the true branch (BranchSpec).           *)
(***************************************************************************)
OnTrueBranch == pc = "branch" /\ engine = "globalFeasible" /\ state.k >= 1

\* C16: the symmetry check never eliminates the true solution: for 1 < P <= Q
\* and every k in 1..n, globalFeasible does not return verdict 1 on
\* (P mod 10^k, Q mod 10^k).  Violated by P = 2, Q = 11 at k = 1.
C16_SymmetryKeepsTrueBranch ==
    OnTrueBranch => state.verdict # 1

\* C17: the minimum-contribution check never eliminates the true solution: for
\* 1 < P <= Q and every k < n, globalFeasible does not return verdict 6 on
\* (P mod 10^k, Q mod 10^k).  Violated by P = 2, Q = 13 at k = 1: one digit
\* remains, the check takes a leading digit of at least 1 for both factors, and
\* P has no second digit.
C17_MinContributionKeepsTrueBranch ==
    (OnTrueBranch /\ state.k < Len(state.N_digits)) => state.verdict # 6

\* the growth envelope of globalFeasible at the state's partial values
TrueBranchEnvelope ==
    maxContributionOf(state.P_value, state.Q_value,
                      Pow(10, Len(state.N_digits) - state.k) - 1,
                      Pow(10, state.k), Pow(10, 2 * state.k))

\* C18: product bracketing on the true branch: for 1 < P <= Q and every k < n,
\* P_k * Q_k <= N <= Pmax * Qmax, neither globalFeasible nor the checks of
\* workFunctionBase return verdict 3 or 5, and maxContribution exceeds the gap
\* by exactly what Pmax * Qmax exceeds N, so that maxContribution < gap is
\* equivalent to Pmax * Qmax < N.
C18_ProductBracketing ==
    (pc = "branch" /\ state.k >= 1 /\ state.k < Len(state.N_digits)) =>
        LET n == Len(state.N_digits)
            Pmax == MaxCompletion(state.P_value, state.k, n)
            Qmax == MaxCompletion(state.Q_value, state.k, n)
            gap == state.N - state.P_value * state.Q_value
        IN  /\ state.P_value * state.Q_value <= state.N
            /\ state.N <= Pmax * Qmax
            /\ state.verdict \notin {3, 5}
            /\ TrueBranchEnvelope - gap = Pmax * Qmax - state.N
            /\ (TrueBranchEnvelope < gap) <=> (Pmax * Qmax < state.N)

\* the true branch of 11 * 17 at k = 1 of 3, kept by globalFeasible with a
\* positive gap
C18_Witness ==
    /\ OnTrueBranch
    /\ args.p = 11 /\ args.q = 17
    /\ state.k = 1
    /\ state.verdict = 0
    /\ state.N - state.P_value * state.Q_value > 0

(***************************************************************************)
(* Properties of the basic work function on the digit path (PathSpec).     *)
(***************************************************************************)
\* C23: the basic engine only enforces the recurrence, so for every 1 < P, Q
\* with N = P * Q the digit path of (P, Q) survives every position: the basic
\* workFunction returns the child carrying the next digits of P and Q.
\* Violated by P = Q = 78: at k = 2 the carry is 11 and line 638 admits only
\* carries up to 10.
C23_DigitPathSurvives ==
    pc = "path" => state.survived

(***************************************************************************)
(* Properties of the pruning and base engines side by side (SideSpec).     *)
(***************************************************************************)
\* the children workFunction returns for a node of the pruning run and those
\* workFunctionBase(input, 10) returns for the same input
PruningChildren(node) ==
    workFunction(branchInput(state, node, state.step + 1), DigitPairs(10)).states

BaseChildrenAtTen(node) ==
    workFunctionBase(branchInput(state, node, state.step + 1), 10).states

\* C29: the pruning engine refines the base engine at base 10: every child
\* workFunction returns for a node of the pruning run is returned by
\* workFunctionBase(input, 10) with the same digits, values and carry; when the
\* two runs have made the same number of steps the frontier of the pruning run
\* is a subset of that of the base run; when the pruning run is solved, the
\* base run, once at the final position or terminal, is solved too.
C29_PruningRefinesBase ==
    pc = "run" =>
        /\ (~Terminal(state) /\ state.step < Len(state.N_digits)) =>
              \A i \in 1..Len(state.frontier) :
                  NodeSet(PruningChildren(state.frontier[i]))
                      \subseteq NodeSet(BaseChildrenAtTen(state.frontier[i]))
        /\ (state.step = other.step) =>
              NodeSet(state.frontier) \subseteq NodeSet(other.frontier)
        /\ (state.success /\ (Terminal(other) \/ other.step = Len(other.N_digits))) =>
              other.success

\* both runs are solved, and at an earlier position the base run held a node
\* the pruning run did not
C29_Witness ==
    /\ pc = "run"
    /\ state.success
    /\ other.success
    /\ state.foundP = other.foundP
    /\ Len(state.frontier) < Len(other.frontier)

(***************************************************************************)
(* Properties of integerSqrt (SqrtSpec).                                   *)
(***************************************************************************)

\* C8: integerSqrt terminates: every call with n >= 0 returns.
C8_IntegerSqrtTerminates ==
    (sqrt_pc = "called" /\ sqrt_n >= 0) ~> (sqrt_pc = "returned")

\* C9: when integerSqrt returns, the result r is the floor of the square root
\* of n: r >= 0 and r * r <= n < (r + 1) * (r + 1); a call with n < 0 throws
\* and only such a call throws.
C9_IntegerSqrtFloor ==
    /\ sqrt_pc = "returned" =>
          (sqrt_n >= 0 /\ x >= 0 /\ x * x <= sqrt_n /\ sqrt_n < (x + 1) * (x + 1))
    /\ sqrt_pc = "thrown" => sqrt_n < 0
    /\ sqrt_n < 0 => sqrt_pc \in {"called", "thrown"}

C9_Witness ==
    /\ engine = "integerSqrt"
    /\ sqrt_pc = "returned"
    /\ sqrt_n = 10
    /\ x = 3
    /\ prev = 3

(***************************************************************************)
(* Properties of two runs on the same N (DetSpec).                         *)
(***************************************************************************)
\* C5: determinism: two runs on the same N that have made the same number of
\* steps hold the same set of surviving nodes, whatever the order in which
\* the frontier nodes and the digit pairs were visited and whatever the
\* power-of-10 cache held; the verdicts of globalFeasible counted in
\* pruningStats are the same, and both runs stop at the same step with the
\* same outcome.
C5_Determinism ==
    pc = "run" =>
        /\ state.step = other.step =>
              NodeSet(state.frontier) = NodeSet(other.frontier)
        /\ (Terminal(state) /\ Terminal(other)) => state.step = other.step
        /\ (state.step = other.step /\ Terminal(state) = Terminal(other)) =>
              /\ state.done = other.done
              /\ state.success = other.success
              /\ state.pruningStats = other.pruningStats
              /\ state.nodesPruned = other.nodesPruned

C5_Witness ==
    /\ pc = "run"
    /\ state.step = 2
    /\ other.step = 2
    /\ Len(state.frontier) >= 2
    /\ state.frontier # other.frontier
    /\ NodeSet(state.frontier) = NodeSet(other.frontier)
    /\ 1 \in DOMAIN POWER_10_CACHE

====
